---- MODULE Spec2Model ----
(***************************************************************************)
(* Model of the Rust liquidation keeper (keeper_bots/rust_liquidation_     *)
(* keeper): the RocksDB mirror store (database.rs), the event monitor      *)
(* with its historical replay, real-time and polling transports            *)
(* (events.rs), the auction reset scheduler (reset.rs), the NAV            *)
(* computation (nav.rs) and the liquidation loop (liquidation.rs).         *)
(*                                                                         *)
(* The specifications share the variables:                                 *)
(*   Spec        the ingestion pipeline over a fixed chain of logs         *)
(*   SpecReset   the reset scheduler under injected auction-manager logs   *)
(*   SpecCalc    calculate_reset_duration over bounded inputs              *)
(*   SpecStore   the event appliers over a bounded domain of events        *)
(*   SpecNav     calculate_all_nav over bounded positions and prices       *)
(*   SpecLiq     the liquidation loop over bounded positions and prices    *)
(*   SpecParams  ParameterChanged logs over every transport                *)
(*   SpecConfig  LiquidationConfigInfo written field by field              *)
(*   SpecRmw     two replay tasks updating the parameter row               *)
(*   SpecOrder   a replay whose blocks depend on each other or fail        *)
(*   SpecCache   the de-duplication set and its cleanup                    *)
(*   SpecAuction the ingestion pipeline over a chain with auctions         *)
(*   SpecLiqParams the liquidation loop reading the parameter row beside   *)
(*               the replay tasks of SpecRmw                               *)
(*   SpecShort   blocks with a log short of topics or data                 *)
(*   SpecFail    blocks with a log whose leverage code is rejected         *)
(*   SpecRead    Mint and PositionIncreased with a store read that fails   *)
(*   SpecCleanup the cleanup of the de-duplication set on every set        *)
(*   SpecDedup   blocks with a rejected log announced more than once       *)
(***************************************************************************)
EXTENDS Integers, Sequences, FiniteSets, TLC

VARIABLES
    chain,              \* block number -> sequence of logs (the node's answer to getLogs)
    head,               \* eth_blockNumber
    now,                \* wall clock, seconds
    backtrace,          \* config.event_monitoring.cold_start_backtrace_blocks
    params,             \* DB row "system_params": <<>> when missing, <<row>> otherwise
    positions,          \* DB rows "position_<user>_<token>": function on the stored keys
    auctions,           \* DB rows "auction_<id>": function on the stored ids
    last_synced_block,  \* DB row "last_synced_block": None when missing
    pc,                 \* where the event monitor task is
    mode,               \* EventMonitor.mode
    processed_events,   \* EventMonitor.processed_events
    sync_cur,           \* sync_block_range: current_block
    sync_end,           \* sync_block_range: end_block
    tasks,              \* sync_block_range: the spawned per-block tasks of the batch
    poll_idx,           \* monitor_all_events: index of the next monitor of the cycle
    pending_resets,     \* AuctionResetMonitor.pending_resets
    timers,             \* the tasks spawned by start_reset_task, in spawn order
    reset_txs,          \* the resetAuction submissions made by execute_auction_reset
    calc_in,            \* SpecCalc: the arguments of calculate_reset_duration
    calc_out,           \* SpecCalc: its result
    rt_delivered,       \* history: block -> times process_block_events ran on it in this run
    poll_applied,       \* history: EventId -> times a polling cycle changed the store with it
    replay_effect,      \* history: EventId -> times a replay changed the store with it
    applied_blocks,     \* history: blocks whose logs were all fetched and applied
    sync_from,          \* history: first block of the synced range
    auction_removed,    \* history: ids whose last applied Started/Removed is Removed
    ev_count,           \* history: auction id -> number of auction events applied
    crashes,            \* history: number of crashes so far
    prev_store,         \* history: the mirrored tables before the event applied last
    last_event,         \* history: the logs of the event or block applied last, << >> at first
    current_price,      \* check_and_execute_liquidations: current_price
    nav_results,        \* check_and_execute_liquidations: nav_results
    liquidatable,       \* check_and_execute_liquidations: liquidatable_positions still to bark
    read_params,        \* check_and_execute_liquidations: << system_params >> once read
    bark_attempts,      \* history: the execute_liquidation calls, in order
    iteration           \* history: number of the liquidation iteration under way

vars == << chain, head, now, backtrace, params, positions, auctions,
           last_synced_block, pc, mode, processed_events, sync_cur, sync_end,
           tasks, poll_idx, pending_resets, timers, reset_txs, calc_in,
           calc_out, rt_delivered, poll_applied, replay_effect,
           applied_blocks, sync_from, auction_removed, ev_count, crashes,
           prev_store, last_event, current_price, nav_results, liquidatable,
           read_params, bark_attempts, iteration >>

\* The variables of the store history and of the liquidation loop.
store_hist == << prev_store, last_event >>
liq_vars == << current_price, nav_results, liquidatable, read_params, bark_attempts,
              iteration >>

-----------------------------------------------------------------------------
(* Bounds of the model *)

\* The fixed-point unit (1e18 in the program), scaled down.
WAD == 10
\* The largest 256-bit value, scaled down.
U256_MAX == 4095
\* Blocks of the chain are 0..MaxBlock.
MaxBlock == 2
\* Blocks per replay batch (100 in the program), scaled down.
BatchSize == 2
\* How far below the head a re-announced header may be.
ReorgDepth == 1
\* Crashes per behaviour.
MaxCrashes == 1
\* The history counters saturate here.
MaxCount == 2
\* Wall-clock seconds of a behaviour.
MaxTime == 3
\* Reset timer tasks and reset submissions per behaviour.
MaxTimers == 2
MaxTxs == 2
\* Auction manager logs per behaviour of the reset scheduler.
MaxLogs == 3
\* Inputs of calculate_reset_duration.
MaxPrice == 12
MaxResetTime == 4
\* SpecStore: the largest amount and interest an event carries, the last second
MaxAmount == 2
MaxInterest == 1
MaxStoreTime == 1
\* The basis points of a whole and the seconds of a year (10000 and 31536000 in
\* the program), scaled down.
BASIS_POINTS == 2
SECONDS_PER_YEAR == 3
\* SpecLiq: the number of iterations of the liquidation loop
MaxIterations == 2

\* The sizes of cleanup_processed_events_cache (5000, 3500, 2000 and 500 ids in
\* the program) and of aggressive_cleanup (1000 and 2500 ids), scaled down with
\* their order kept and AGGRESSIVE_TRIGGER = TARGET_CACHE_SIZE + MIN_RETAIN_SIZE.
MAX_CACHE_SIZE == 10
SOFT_CACHE_SIZE == 7
TARGET_CACHE_SIZE == 4
MIN_RETAIN_SIZE == 2
AGGRESSIVE_RETAIN == 3
AGGRESSIVE_TRIGGER == 6
\* The window of hot events (300 seconds in the program), the block above which
\* an event is of the priority to keep (20000000) and the base point and pace of
\* the timestamp estimate (block 18000000 at 1670534400, 12 seconds a block),
\* scaled down.
CLEANUP_TIME_WINDOW == 1
PRIORITY_BLOCK == 2
BASE_BLOCK == 2
BASE_TIMESTAMP == 1
SECONDS_PER_BLOCK == 1
\* SpecCache: the most logs of a block
MaxBlockLogs == 6

\* Option::None of get_last_synced_block
None == 0 - 1

Min(a, b) == IF a < b THEN a ELSE b
Max(a, b) == IF a > b THEN a ELSE b
Bump(n) == Min(n + 1, MaxCount)

-----------------------------------------------------------------------------
(* U256 arithmetic (primitive-types) *)

saturating_mul(a, b) == IF a * b > U256_MAX THEN U256_MAX ELSE a * b
\* checked_div(..).unwrap_or(zero)
checked_div_or_zero(a, b) == IF b = 0 THEN 0 ELSE a \div b
saturating_sub(a, b) == IF a < b THEN 0 ELSE a - b

-----------------------------------------------------------------------------
(* database.rs *)

LeverageCodes == {0, 1, 2}
LeverageType_from_u8(value) ==
    CASE value = 0 -> "Conservative"
      [] value = 1 -> "Moderate"
      [] value = 2 -> "Aggressive"
      [] OTHER -> "Err"

\* SystemParams::default(), scaled by WAD / 1e18
DefaultParams ==
    [ liquidation_threshold |-> (3 * WAD) \div 10,
      adjustment_threshold  |-> (5 * WAD) \div 10,
      penalty               |-> (3 * WAD) \div 1000,
      price_multiplier      |-> 1000,
      reset_time            |-> 3,
      price_drop_threshold  |-> 0,
      percentage_reward     |-> 100,
      fixed_reward          |-> WAD,
      min_auction_amount    |-> WAD,
      annual_interest_rate  |-> 300 ]

\* The value get_system_params returns.
system_params(w) == IF w.params = <<>> THEN DefaultParams ELSE w.params[1]
\* get_system_params: a missing row is written back with the defaults.
get_system_params(w) == [w EXCEPT !.params = << system_params(w) >>]
set_system_params(w, p) == [w EXCEPT !.params = << p >>]

update_adjustment_threshold(w, v) ==
    set_system_params(w, [system_params(w) EXCEPT !.adjustment_threshold = v])
update_liquidation_threshold(w, v) ==
    set_system_params(w, [system_params(w) EXCEPT !.liquidation_threshold = v])
update_penalty(w, v) ==
    set_system_params(w, [system_params(w) EXCEPT !.penalty = v])
update_price_multiplier(w, v) ==
    set_system_params(w, [system_params(w) EXCEPT !.price_multiplier = v])
update_reset_time(w, v) ==
    set_system_params(w, [system_params(w) EXCEPT !.reset_time = v])
update_min_auction_amount(w, v) ==
    set_system_params(w, [system_params(w) EXCEPT !.min_auction_amount = v])
update_price_drop_threshold(w, v) ==
    set_system_params(w, [system_params(w) EXCEPT !.price_drop_threshold = v])
update_percentage_reward(w, v) ==
    set_system_params(w, [system_params(w) EXCEPT !.percentage_reward = v])
update_fixed_reward(w, v) ==
    set_system_params(w, [system_params(w) EXCEPT !.fixed_reward = v])
update_annual_interest_rate(w, v) ==
    set_system_params(w, [system_params(w) EXCEPT !.annual_interest_rate = v])

\* put / delete of one key of a table held as a function on the stored keys
Put(f, k, v) == [x \in DOMAIN f \cup {k} |-> IF x = k THEN v ELSE f[x]]
Del(f, k) == [x \in DOMAIN f \ {k} |-> f[x]]

PosKey(user, token_id) == << user, token_id >>
has_user_position(w, user, token_id) == PosKey(user, token_id) \in DOMAIN w.positions
get_user_position(w, user, token_id) == w.positions[PosKey(user, token_id)]
store_user_position(w, p) ==
    [w EXCEPT !.positions = Put(@, PosKey(p.user, p.token_id), p)]
delete_user_position(w, user, token_id) ==
    [w EXCEPT !.positions = Del(@, PosKey(user, token_id))]

auction_exists(w, auction_id) == auction_id \in DOMAIN w.auctions
get_auction(w, auction_id) == w.auctions[auction_id]
store_auction(w, a) == [w EXCEPT !.auctions = Put(@, a.auction_id, a)]
delete_auction(w, auction_id) == [w EXCEPT !.auctions = Del(@, auction_id)]

-----------------------------------------------------------------------------
(* Logs.  A log carries its EventId, the emitting contract, topic[0] (sig),  *)
(* the number of topics and data bytes, and the words the parsers read.      *)

SigInterestRateChanged == "InterestRateChanged(uint256,uint256)"
SigPositionIncreased == "PositionIncreased(address,uint256,uint256,uint256,uint256)"
SigPositionIncreased6 == "PositionIncreased(address,uint256,uint256,uint256,uint256,uint8)"
SigPositionOpened == "PositionOpened(address,uint256,uint256,uint256,uint8)"
SigInterestCollected == "InterestCollected(address,uint256,uint256,uint256)"
SigMint == "Mint(address,uint256,uint256,uint8,uint256,uint256,uint256)"
SigParameterChanged == "ParameterChanged(bytes32,uint256)"
SigLiquidationConfigInfo == "LiquidationConfigInfo(uint256,uint256,uint256,bool)"
SigNetValueAdjusted == "NetValueAdjusted(address,uint256,uint256,uint8,uint256,uint256,uint256)"
SigAuctionStarted == "AuctionStarted(uint256,uint256,uint256,address,uint256,address,uint256)"
SigAuctionReset == "AuctionReset(uint256,uint256,uint256,address,uint256,address,uint256)"
SigAuctionRemoved == "AuctionRemoved(uint256)"

\* EventMonitor::new: the precomputed signature table
event_signatures ==
    [ InterestRateChanged         |-> SigInterestRateChanged,
      PositionIncreased           |-> SigPositionIncreased,
      InterestCollected           |-> SigInterestCollected,
      Mint                        |-> SigMint,
      LiquidationParameterChanged |-> SigParameterChanged,
      LiquidationConfigInfo       |-> SigLiquidationConfigInfo,
      NetValueAdjusted            |-> SigNetValueAdjusted,
      AuctionParameterChanged     |-> SigParameterChanged,
      AuctionStarted              |-> SigAuctionStarted,
      AuctionReset                |-> SigAuctionReset,
      AuctionRemoved              |-> SigAuctionRemoved ]

\* A log with every word zero; the constructors below fill in what an event carries.
BlankLog(b, i, address, sig, topics, datalen) ==
    [ block_number |-> b, transaction_index |-> 0, log_index |-> i,
      address |-> address, sig |-> sig, topics |-> topics, datalen |-> datalen,
      user |-> "none", token_id |-> 0, auction_id |-> 0, leverage_value |-> 0,
      a |-> 0, b |-> 0, c |-> 0, parameter |-> [prefix |-> "", rest |-> ""],
      triggerer |-> "none" ]

\* Mint: topics[1]=user; data: tokenId, underlying, leverage, mintPrice (a), sAmount, lAmount (b)
MintLog(b, i, user, token_id, lev, mint_price, l_amount) ==
    [BlankLog(b, i, "custodian", SigMint, 2, 161) EXCEPT
        !.user = user, !.token_id = token_id, !.leverage_value = lev,
        !.a = mint_price, !.b = l_amount]
\* PositionIncreased: topics[1]=user, topics[2]=tokenId; data: delta, totalAmount (a), totalInterest (b)
PositionIncreasedLog(b, i, user, token_id, total_amount, total_interest) ==
    [BlankLog(b, i, "interest_manager", SigPositionIncreased, 3, 96) EXCEPT
        !.user = user, !.token_id = token_id, !.a = total_amount, !.b = total_interest]
\* InterestCollected: topics[1]=user, topics[2]=tokenId; data: deduct (a), interest (b)
InterestCollectedLog(b, i, user, token_id, deduct_amount, interest_amount) ==
    [BlankLog(b, i, "interest_manager", SigInterestCollected, 3, 64) EXCEPT
        !.user = user, !.token_id = token_id, !.a = deduct_amount, !.b = interest_amount]
\* ParameterChanged: topics[1]=parameter bytes32; data: value (a)
ParameterChangedLog(b, i, address, name, value) ==
    [BlankLog(b, i, address, SigParameterChanged, 2, 32) EXCEPT
        !.parameter = [prefix |-> name, rest |-> "NUL"], !.a = value]
\* AuctionStarted: topics[1]=auctionId, [2]=tokenId, [3]=triggerer; data: startingPrice (a),
\* underlyingAmount (b), originalOwner (user), rewardAmount (c)
AuctionStartedLog(b, i, auction_id, starting_price) ==
    [BlankLog(b, i, "auction_manager", SigAuctionStarted, 4, 128) EXCEPT
        !.auction_id = auction_id, !.a = starting_price, !.b = 1,
        !.user = "U1", !.token_id = 1, !.triggerer = "K1"]
\* AuctionReset: topics[1]=auctionId; data: newStartingPrice (a), ...
AuctionResetLog(b, i, auction_id, new_starting_price) ==
    [BlankLog(b, i, "auction_manager", SigAuctionReset, 4, 128) EXCEPT
        !.auction_id = auction_id, !.a = new_starting_price, !.b = 1,
        !.user = "U1", !.token_id = 1, !.triggerer = "K1"]
\* AuctionRemoved: topics[1]=auctionId
AuctionRemovedLog(b, i, auction_id) ==
    [BlankLog(b, i, "auction_manager", SigAuctionRemoved, 2, 0) EXCEPT
        !.auction_id = auction_id]

\* NetValueAdjusted: topics[1]=user, [2]=fromTokenId, [3]=toTokenId (token_id);
\* data: leverage, newMintPrice (a), adjustAmount (b), underlyingAmount
NetValueAdjustedLog(b, i, user, from_token_id, to_token_id, lev, new_mint_price, adjust_amount) ==
    [BlankLog(b, i, "liquidation_manager", SigNetValueAdjusted, 4, 97) EXCEPT
        !.user = user, !.token_id = to_token_id, !.auction_id = from_token_id,
        !.leverage_value = lev, !.a = new_mint_price, !.b = adjust_amount]
\* LiquidationConfigInfo: data: adjustmentThreshold (a), liquidationThreshold (b),
\* penalty (c), enabled
LiquidationConfigInfoLog(b, i, adjustment_threshold, liquidation_threshold, penalty) ==
    [BlankLog(b, i, "liquidation_manager", SigLiquidationConfigInfo, 1, 128) EXCEPT
        !.a = adjustment_threshold, !.b = liquidation_threshold, !.c = penalty]
\* InterestRateChanged: topics[1]=oldRate (a), topics[2]=newRate (b)
InterestRateChangedLog(b, i, old_rate, new_rate) ==
    [BlankLog(b, i, "interest_manager", SigInterestRateChanged, 3, 0) EXCEPT
        !.a = old_rate, !.b = new_rate]

\* EventId of a log (process_block_events, lines 859-863)
EventIdOf(log) ==
    [ block_number |-> log.block_number,
      transaction_index |-> log.transaction_index,
      log_index |-> log.log_index ]

-----------------------------------------------------------------------------
(* reset.rs *)

\* A variant that returns the remaining share of reset_time instead of the elapsed one.
calculate_reset_duration_remaining(starting_price, price_drop_threshold, reset_time) ==
    IF starting_price = 0 \/ reset_time = 0 THEN 0
    ELSE checked_div_or_zero(
             saturating_mul(
                 checked_div_or_zero(
                     saturating_mul(starting_price, price_drop_threshold), WAD),
                 reset_time),
             starting_price)

calculate_reset_duration(starting_price, price_drop_threshold, reset_time) ==
    IF starting_price = 0 THEN 0
    ELSE IF reset_time = 0 THEN 0
    ELSE LET threshold_price ==
                 checked_div_or_zero(
                     saturating_mul(starting_price, price_drop_threshold), WAD)
         IN  IF threshold_price >= starting_price THEN 0
             ELSE LET numerator == saturating_mul(threshold_price, reset_time)
                      denominator == starting_price
                      remaining_ratio == checked_div_or_zero(numerator, denominator)
                  IN  IF denominator = 0 THEN reset_time
                      ELSE IF remaining_ratio >= reset_time THEN 0
                      ELSE saturating_sub(reset_time, remaining_ratio)

\* execute_auction_reset: one resetAuction(auction_id, keeper) submission.  sent is
\* FALSE when eth_accounts or eth_sendTransaction fails and nothing reaches the node.
execute_auction_reset(w, auction_id, t, via, timer, sent) ==
    [w EXCEPT !.reset_txs = Append(@,
        [ auction_id |-> auction_id, at |-> t, via |-> via, timer |-> timer,
          sent |-> sent ])]

\* start_reset_task: tokio::spawn of the sleeping task.  spawned_at and
\* fired_removed are history fields of the task.
start_reset_task(w, task, t) ==
    [w EXCEPT !.timers = Append(@,
        [ auction_id |-> task.auction_id, reset_time |-> task.reset_time,
          pc |-> "sleeping", spawned_at |-> t, fired_removed |-> FALSE ])]

schedule_auction_reset(w, auction_id, starting_price, t, sent) ==
    LET p == system_params(w)
        w1 == get_system_params(w)
        reset_duration_secs ==
            calculate_reset_duration(starting_price, p.price_drop_threshold, p.reset_time)
        task == [auction_id |-> auction_id, reset_time |-> t + reset_duration_secs]
    IN  IF reset_duration_secs = 0
        THEN execute_auction_reset(w1, auction_id, t, "immediate", 0, sent)
        ELSE start_reset_task(
                 [w1 EXCEPT !.pending_resets = Put(@, auction_id, task)], task, t)

cancel_auction_reset(w, auction_id) ==
    [w EXCEPT !.pending_resets = Del(@, auction_id)]

\* A variant whose task does not sleep.
TimerDue_at_once(task, t) == TRUE

\* The spawned task wakes no earlier than its reset_time (sleep_until).
TimerDue(task, t) == t >= task.reset_time

\* A variant whose woken task does not look the auction up.
timer_always_resets(w, auction_id) == TRUE

\* The check of the woken task, lines 125-126: Ok(true) of auction_exists.
timer_should_reset(w, auction_id) == auction_exists(w, auction_id)

-----------------------------------------------------------------------------
(* events.rs: the event appliers.  Each takes the world w (the store, the    *)
(* reset monitor and the history fields), the log and the wall clock t, and  *)
(* returns the world after the handler.  w.err is set when the handler       *)
(* returns Err, w.panicked when it panics (U256 subtraction underflow).      *)

\* bytes32 parameter name: the prefix before the first NUL or space
parameter_name(parameter_bytes) == parameter_bytes.prefix

update_liquidation_parameter(w, parameter_bytes, value) ==
    LET name == parameter_name(parameter_bytes)
    IN  CASE name = "adjustmentThreshold" -> update_adjustment_threshold(w, value)
          [] name = "liquidationThreshold" -> update_liquidation_threshold(w, value)
          [] name = "penalty" -> update_penalty(w, value)
          [] OTHER -> w

\* A variant of the auction manager's dispatch that also takes the names of the
\* liquidation manager.
update_auction_parameter_any_name(w, parameter_bytes, value) ==
    LET name == parameter_name(parameter_bytes)
    IN  CASE name = "priceMultiplier" -> update_price_multiplier(w, value)
          [] name = "resetTime" -> update_reset_time(w, value)
          [] name = "minAuctionAmount" -> update_min_auction_amount(w, value)
          [] name = "priceDropThreshold" -> update_price_drop_threshold(w, value)
          [] name = "percentageReward" -> update_percentage_reward(w, value)
          [] name = "fixedReward" -> update_fixed_reward(w, value)
          [] OTHER -> update_liquidation_parameter(w, parameter_bytes, value)
update_auction_parameter(w, parameter_bytes, value) ==
    LET name == parameter_name(parameter_bytes)
    IN  CASE name = "priceMultiplier" -> update_price_multiplier(w, value)
          [] name = "resetTime" -> update_reset_time(w, value)
          [] name = "minAuctionAmount" -> update_min_auction_amount(w, value)
          [] name = "priceDropThreshold" -> update_price_drop_threshold(w, value)
          [] name = "percentageReward" -> update_percentage_reward(w, value)
          [] name = "fixedReward" -> update_fixed_reward(w, value)
          [] OTHER -> w   \* circuitBreaker is logged only; unknown names warn

\* A variant of the update of an existing record that also forgets the mint price.
increased_position_resetting(existing, total_amount, total_interest, t) ==
    [existing EXCEPT !.amount = total_amount, !.total_interest = total_interest,
                     !.timestamp = t, !.mint_price = 0]

\* PositionIncreased on an existing record (lines 1428-1435)
increased_position(existing, total_amount, total_interest, t) ==
    [existing EXCEPT !.amount = total_amount, !.total_interest = total_interest,
                     !.timestamp = t]

process_interest_event(w, event_name, log, t) ==
    CASE event_name = "InterestRateChanged" ->
            IF log.topics >= 3 THEN update_annual_interest_rate(w, log.b) ELSE w
      [] event_name = "PositionIncreased" ->
            IF log.topics >= 3 /\ log.datalen >= 96
            THEN IF has_user_position(w, log.user, log.token_id)
                 THEN store_user_position(w,
                        increased_position(
                            get_user_position(w, log.user, log.token_id),
                            log.a, log.b, t))
                 ELSE store_user_position(w,
                        [ user |-> log.user, token_id |-> log.token_id,
                          amount |-> log.a, timestamp |-> t,
                          total_interest |-> log.b, leverage |-> "Conservative",
                          mint_price |-> 0 ])
            ELSE w
      [] event_name = "InterestCollected" ->
            IF log.topics >= 3 /\ log.datalen >= 64
               /\ has_user_position(w, log.user, log.token_id)
            THEN LET position == get_user_position(w, log.user, log.token_id)
                 IN  IF position.amount < log.a \/ position.total_interest < log.b
                     THEN [w EXCEPT !.panicked = TRUE]
                     ELSE IF position.amount - log.a = 0
                     THEN delete_user_position(w, log.user, log.token_id)
                     ELSE store_user_position(w,
                            [position EXCEPT !.amount = @ - log.a,
                                             !.total_interest = @ - log.b,
                                             !.timestamp = t])
            ELSE w
      [] OTHER -> w

\* A variant of the update of an existing record that also stamps the record.
adjusted_position_touching(existing, leverage, mint_price, amount, t) ==
    [existing EXCEPT !.leverage = leverage, !.mint_price = mint_price, !.timestamp = t]

\* A variant of the update of an existing record that also adds the carried amount.
adjusted_position_adding(existing, leverage, mint_price, amount, t) ==
    [existing EXCEPT !.leverage = leverage, !.mint_price = mint_price,
                     !.amount = Min(@ + amount, U256_MAX)]

\* Mint and NetValueAdjusted on an existing record (lines 1588-1593, 1919-1924)
adjusted_position(existing, leverage, mint_price, amount, t) ==
    [existing EXCEPT !.leverage = leverage, !.mint_price = mint_price]

\* Mint and NetValueAdjusted share their store transition: overwrite leverage and
\* mint price of an existing record, else create one with the carried amount.
upsert_leverage_and_price(w, log, t) ==
    IF LeverageType_from_u8(log.leverage_value) = "Err"
    THEN [w EXCEPT !.err = TRUE]
    ELSE IF has_user_position(w, log.user, log.token_id)
    THEN store_user_position(w,
            adjusted_position(get_user_position(w, log.user, log.token_id),
                              LeverageType_from_u8(log.leverage_value), log.a, log.b, t))
    ELSE store_user_position(w,
            [ user |-> log.user, token_id |-> log.token_id, amount |-> log.b,
              timestamp |-> t, total_interest |-> 0,
              leverage |-> LeverageType_from_u8(log.leverage_value),
              mint_price |-> log.a ])

process_liquidation_event(w, event_name, log, t) ==
    CASE event_name = "ParameterChanged" ->
            IF log.topics >= 2 /\ log.datalen >= 32
            THEN update_liquidation_parameter(w, log.parameter, log.a)
            ELSE w
      [] event_name = "LiquidationConfigInfo" ->
            IF log.datalen >= 128
            THEN update_penalty(
                     update_liquidation_threshold(
                         update_adjustment_threshold(w, log.a), log.b), log.c)
            ELSE w
      [] event_name = "NetValueAdjusted" ->
            IF log.topics >= 4 /\ log.datalen >= 97
            THEN upsert_leverage_and_price(w, log, t)
            ELSE w
      [] OTHER -> w

\* A variant of the Mint applier without the check of the data length.
process_custodian_event_unchecked(w, event_name, log, t) ==
    CASE event_name = "Mint" ->
            IF log.topics >= 2 THEN upsert_leverage_and_price(w, log, t) ELSE w
      [] OTHER -> w

process_custodian_event(w, event_name, log, t) ==
    CASE event_name = "Mint" ->
            IF log.topics >= 2 /\ log.datalen >= 161
            THEN upsert_leverage_and_price(w, log, t)
            ELSE w
      [] OTHER -> w

AuctionInfoOf(log, t) ==
    [ auction_id |-> log.auction_id, starting_price |-> log.a,
      underlying_amount |-> log.b, original_owner |-> log.user,
      token_id |-> log.token_id, triggerer |-> log.triggerer,
      reward_amount |-> log.c, start_time |-> t ]

\* History of the auction events applied for an id.
NoteAuctionEvent(w, auction_id, removed) ==
    [w EXCEPT !.ev_count = Put(@, auction_id,
                  IF auction_id \in DOMAIN @ THEN Bump(@[auction_id]) ELSE 1),
              !.auction_removed =
                  CASE removed = "yes" -> @ \cup {auction_id}
                    [] removed = "no" -> @ \ {auction_id}
                    [] OTHER -> @]

\* Real-time and polling transports: the record is stored and the reset monitor told.
process_auction_event(w, event_name, log, t, sent) ==
    CASE event_name = "ParameterChanged" ->
            IF log.topics >= 2 /\ log.datalen >= 32
            THEN update_auction_parameter(w, log.parameter, log.a)
            ELSE w
      [] event_name = "AuctionStarted" ->
            IF log.topics >= 4 /\ log.datalen >= 128
            THEN schedule_auction_reset(
                     NoteAuctionEvent(store_auction(w, AuctionInfoOf(log, t)),
                                      log.auction_id, "no"),
                     log.auction_id, log.a, t, sent)
            ELSE w
      [] event_name = "AuctionReset" ->
            IF log.topics >= 4 /\ log.datalen >= 32
            THEN IF auction_exists(w, log.auction_id)
                 THEN schedule_auction_reset(
                          NoteAuctionEvent(
                              store_auction(w,
                                  [get_auction(w, log.auction_id) EXCEPT
                                      !.starting_price = log.a, !.start_time = t]),
                              log.auction_id, "same"),
                          log.auction_id, log.a, t, sent)
                 ELSE NoteAuctionEvent(w, log.auction_id, "same")
            ELSE w
      [] event_name = "AuctionRemoved" ->
            IF log.topics >= 2
            THEN NoteAuctionEvent(
                     delete_auction(cancel_auction_reset(w, log.auction_id),
                                    log.auction_id),
                     log.auction_id, "yes")
            ELSE w
      [] OTHER -> w

\* Historical replay: the static appliers of the interest manager, the liquidation
\* manager and the custodian make the store transitions of the real-time ones.
process_interest_event_static(w, event_name, log, t) ==
    process_interest_event(w, event_name, log, t)
process_liquidation_event_static(w, event_name, log, t) ==
    process_liquidation_event(w, event_name, log, t)
process_custodian_event_static(w, event_name, log, t) ==
    process_custodian_event(w, event_name, log, t)

\* Historical replay: the record is stored; the reset monitor is not involved.
process_auction_event_static(w, event_name, log, t) ==
    CASE event_name = "ParameterChanged" ->
            IF log.topics >= 2 /\ log.datalen >= 32
            THEN update_auction_parameter(w, log.parameter, log.a)
            ELSE w
      [] event_name = "AuctionStarted" ->
            IF log.topics >= 4 /\ log.datalen >= 128
            THEN NoteAuctionEvent(store_auction(w, AuctionInfoOf(log, t)),
                                  log.auction_id, "no")
            ELSE w
      [] event_name = "AuctionReset" ->
            IF log.topics >= 4 /\ log.datalen >= 32
            THEN IF auction_exists(w, log.auction_id)
                 THEN NoteAuctionEvent(
                          store_auction(w,
                              [get_auction(w, log.auction_id) EXCEPT
                                  !.starting_price = log.a, !.start_time = t]),
                          log.auction_id, "same")
                 ELSE NoteAuctionEvent(w, log.auction_id, "same")
            ELSE w
      [] event_name = "AuctionRemoved" ->
            IF log.topics >= 2
            THEN NoteAuctionEvent(delete_auction(w, log.auction_id),
                                  log.auction_id, "yes")
            ELSE w
      [] OTHER -> w

\* process_*_event_from_log: the event name of topic[0] for the emitting contract
interest_event_name(log) ==
    IF \E n \in DOMAIN event_signatures : event_signatures[n] = log.sig
    THEN CHOOSE n \in DOMAIN event_signatures : event_signatures[n] = log.sig
    ELSE "Unknown"
liquidation_event_name(log) ==
    CASE log.sig = event_signatures.LiquidationParameterChanged -> "ParameterChanged"
      [] log.sig = event_signatures.LiquidationConfigInfo -> "LiquidationConfigInfo"
      [] log.sig = event_signatures.NetValueAdjusted -> "NetValueAdjusted"
      [] OTHER -> "Unknown"
auction_event_name(log) ==
    CASE log.sig = event_signatures.AuctionParameterChanged -> "ParameterChanged"
      [] log.sig = event_signatures.AuctionStarted -> "AuctionStarted"
      [] log.sig = event_signatures.AuctionReset -> "AuctionReset"
      [] log.sig = event_signatures.AuctionRemoved -> "AuctionRemoved"
      [] OTHER -> "Unknown"
custodian_event_name(log) ==
    IF log.sig = event_signatures.Mint THEN "Mint" ELSE "Unknown"

\* The dispatch on the emitting contract of process_block_events (lines 872-889):
\* a handler's Err is logged and dropped.
apply_log(w, log, t, sent) ==
    LET w1 ==
        IF log.topics = 0 THEN w
        ELSE CASE log.address = "interest_manager" ->
                    process_interest_event(w, interest_event_name(log), log, t)
               [] log.address = "liquidation_manager" ->
                    process_liquidation_event(w, liquidation_event_name(log), log, t)
               [] log.address = "auction_manager" ->
                    process_auction_event(w, auction_event_name(log), log, t, sent)
               [] log.address = "custodian" ->
                    process_custodian_event(w, custodian_event_name(log), log, t)
               [] OTHER -> w
    IN  [w1 EXCEPT !.err = FALSE]

\* The same dispatch in sync_single_block (lines 388-405), with the static appliers.
apply_log_static(w, log, t) ==
    LET w1 ==
        IF log.topics = 0 THEN w
        ELSE CASE log.address = "interest_manager" ->
                    process_interest_event_static(w, interest_event_name(log), log, t)
               [] log.address = "liquidation_manager" ->
                    process_liquidation_event_static(w, liquidation_event_name(log), log, t)
               [] log.address = "auction_manager" ->
                    process_auction_event_static(w, auction_event_name(log), log, t)
               [] log.address = "custodian" ->
                    process_custodian_event_static(w, custodian_event_name(log), log, t)
               [] OTHER -> w
    IN  [w1 EXCEPT !.err = FALSE]

-----------------------------------------------------------------------------
(* nav.rs.  A failing computation is a record of kind "panic" (an overflowing *)
(* U256 operator) or "err" (an Err result); Option::None is None.            *)

\* U256::checked_mul
checked_mul(a, b) == IF a = None \/ a * b > U256_MAX THEN None ELSE a * b
\* U256::checked_div
checked_div(a, b) == IF a = None \/ b = 0 THEN None ELSE a \div b

\* The divisor of the interest of a leverage kind (lines 80-84)
interest_divisor(leverage_level) ==
    CASE leverage_level = "Conservative" -> 8
      [] leverage_level = "Moderate" -> 4
      [] OTHER -> 1

calculate_accrued_interest(position_amount, leverage_level, interest_rate, holding_time_seconds) ==
    IF position_amount = 0 \/ interest_rate = 0 THEN 0
    ELSE LET numerator == checked_mul(checked_mul(position_amount, holding_time_seconds),
                                      interest_rate)
             denominator == checked_mul(BASIS_POINTS, SECONDS_PER_YEAR)
             base_accrued_interest ==
                 IF denominator = None THEN None ELSE checked_div(numerator, denominator)
         IN  checked_div(base_accrued_interest, interest_divisor(leverage_level))

\* A variant of the treatment of an overflowed interest that wraps the product.
new_interest_wrapping(interest, position, interest_rate, holding_time) ==
    IF interest = None
    THEN ((position.amount * holding_time * interest_rate) % (U256_MAX + 1))
            \div (BASIS_POINTS * SECONDS_PER_YEAR)
    ELSE interest

\* calculate_all_nav, lines 138-142: an overflowed interest counts as 0
new_interest_or_zero(interest, position, interest_rate, holding_time) ==
    IF interest = None THEN 0 ELSE interest

\* The multiplier of the current price in the gross NAV of a leverage kind
price_multiple(leverage) ==
    CASE leverage = "Conservative" -> 9
      [] leverage = "Moderate" -> 5
      [] OTHER -> 2

calculate_gross_nav(leverage, price, mint_price) ==
    LET k == price_multiple(leverage)
        pt_scaled == k * price
        numerator == pt_scaled - mint_price
        denominator == (k - 1) * mint_price
    IN  IF pt_scaled > U256_MAX \/ pt_scaled < mint_price \/ denominator > U256_MAX
        THEN [kind |-> "panic", v |-> 0]
        ELSE IF denominator = 0
        THEN [kind |-> "err", v |-> 0]
        ELSE IF numerator * WAD > U256_MAX
        THEN [kind |-> "panic", v |-> 0]
        ELSE [kind |-> "ok", v |-> (numerator * WAD) \div denominator]

\* The body of the loop of calculate_all_nav for one position with a mint price
\* (lines 130-196): the new interest and the NavCalculation, or the failure.
nav_of_position(position, price, interest_rate, current_time) ==
    LET holding_time == saturating_sub(current_time, position.timestamp)
        new_accrued_interest ==
            new_interest_or_zero(
                calculate_accrued_interest(position.amount, position.leverage,
                                           interest_rate, holding_time),
                position, interest_rate, holding_time)
        total_accrued_interest == position.total_interest + new_accrued_interest
        gross == calculate_gross_nav(position.leverage, price, position.mint_price)
        total_value == IF gross.v # 0 THEN (position.amount * gross.v) \div WAD ELSE 0
        net_value == IF total_value >= total_accrued_interest
                     THEN total_value - total_accrued_interest ELSE 0
        net_nav == IF total_value >= total_accrued_interest /\ position.amount # 0
                   THEN (net_value * WAD) \div position.amount ELSE 0
        kind == IF total_accrued_interest > U256_MAX THEN "panic"
                ELSE IF gross.kind # "ok" THEN gross.kind
                ELSE IF position.amount * gross.v > U256_MAX THEN "panic"
                ELSE IF total_value >= total_accrued_interest /\ position.amount # 0
                        /\ net_value * WAD > U256_MAX THEN "panic"
                ELSE "ok"
    IN  [ kind |-> kind,
          new_interest |-> new_accrued_interest,
          result |-> [ user |-> position.user, token_id |-> position.token_id,
                       gross_nav |-> gross.v, net_nav |-> net_nav,
                       position_amount |-> position.amount,
                       total_value |-> total_value, net_value |-> net_value,
                       accrued_interest |-> total_accrued_interest ] ]

\* Database::get_all_user_positions: the records in the order of their keys
\* "position_<user>_<token>".
KeyBefore(k1, k2) ==
    \/ (k1[1] = "U1" /\ k2[1] # "U1")
    \/ (k1[1] = k2[1] /\ k1[2] < k2[2])
RECURSIVE keys_in_order(_)
keys_in_order(ks) ==
    IF ks = {} THEN << >>
    ELSE LET first == CHOOSE k \in ks : \A o \in ks \ {k} : KeyBefore(k, o)
         IN  << first >> \o keys_in_order(ks \ {first})
get_all_user_positions(w) ==
    LET ks == keys_in_order(DOMAIN w.positions)
    IN  [i \in 1..Len(ks) |-> w.positions[ks[i]]]

\* calculate_all_nav: the loop over the positions.  acc = [kind, results,
\* interests]; interests lists the new interest computed for each position
\* the loop did not skip, in order.
RECURSIVE nav_loop(_, _, _, _, _, _)
nav_loop(acc, all_positions, i, price, interest_rate, current_time) ==
    IF i > Len(all_positions) \/ acc.kind # "ok" THEN acc
    ELSE IF all_positions[i].mint_price = 0
    THEN nav_loop(acc, all_positions, i + 1, price, interest_rate, current_time)
    ELSE LET n == nav_of_position(all_positions[i], price, interest_rate,
                                  current_time)
         IN  nav_loop(
                 [ kind |-> n.kind,
                   results |-> IF n.kind = "ok" THEN Append(acc.results, n.result)
                               ELSE acc.results,
                   interests |-> Append(acc.interests,
                                        [ token_id |-> all_positions[i].token_id,
                                          new_interest |-> n.new_interest ]) ],
                 all_positions, i + 1, price, interest_rate, current_time)

calculate_all_nav(w, price, current_time) ==
    nav_loop([kind |-> "ok", results |-> << >>, interests |-> << >>],
             get_all_user_positions(w), 1, price,
             system_params(w).annual_interest_rate, current_time)

-----------------------------------------------------------------------------
(* The world the appliers act on, packed from and unpacked to the variables *)

W == [ params |-> params, positions |-> positions, auctions |-> auctions,
       pending_resets |-> pending_resets, timers |-> timers,
       reset_txs |-> reset_txs, auction_removed |-> auction_removed,
       ev_count |-> ev_count, err |-> FALSE, panicked |-> FALSE ]

SetW(w) ==
    /\ params' = w.params
    /\ positions' = w.positions
    /\ auctions' = w.auctions
    /\ pending_resets' = w.pending_resets
    /\ timers' = w.timers
    /\ reset_txs' = w.reset_txs
    /\ auction_removed' = w.auction_removed
    /\ ev_count' = w.ev_count

\* The bounds on the reset tasks and submissions of a behaviour.
WithinBounds(w) == Len(w.timers) <= MaxTimers /\ Len(w.reset_txs) <= MaxTxs

\* The mirrored tables without the wall-clock fields.
StripPositions(ps) ==
    [k \in DOMAIN ps |-> [ps[k] EXCEPT !.timestamp = 0]]
StripAuctions(as) ==
    [k \in DOMAIN as |-> [as[k] EXCEPT !.start_time = 0]]
StoreContent(w) == << w.params, StripPositions(w.positions), StripAuctions(w.auctions) >>

Blocks == 0..MaxBlock
LogsOf(b) == chain[b]
EventIds == UNION { { EventIdOf(LogsOf(b)[i]) : i \in 1..Len(LogsOf(b)) } : b \in Blocks }

SteadyPc(m) == IF m = "Realtime" THEN "realtime" ELSE "polling"

-----------------------------------------------------------------------------
(* events.rs: historical replay *)

\* A variant of the batch bound that takes one block more.
batch_end_of_inclusive(current_block, end_block) ==
    IF current_block + BatchSize < end_block THEN current_block + BatchSize ELSE end_block
\* sync_block_range, lines 309-331: the tasks of the batch starting at current_block
batch_end_of(current_block, end_block) == Min(current_block + BatchSize - 1, end_block)
spawn_batch(current_block, end_block) ==
    [b \in current_block..batch_end_of(current_block, end_block) |->
        [st |-> "spawned", idx |-> 0]]

\* A variant of the cold start that begins at the head.
cold_start_block_at_head(latest_block, backtrace_blocks) == latest_block
\* perform_cold_start_sync, lines 280-284
cold_start_block(latest_block, backtrace_blocks) ==
    IF latest_block > backtrace_blocks THEN latest_block - backtrace_blocks ELSE 0

\* run -> perform_initial_sync -> perform_cold_start_sync / sync_block_range up to
\* the first batch being spawned.  rpc_ok is the outcome of eth_blockNumber.
perform_initial_sync ==
    /\ pc = "init"
    /\ \E rpc_ok \in BOOLEAN :
        LET latest_block_num == head
        IN  IF ~rpc_ok
            THEN /\ pc' = SteadyPc(mode)
                 /\ UNCHANGED << last_synced_block, sync_cur, sync_end, tasks, sync_from >>
            ELSE IF last_synced_block # None
            THEN IF last_synced_block >= latest_block_num
                 THEN /\ pc' = SteadyPc(mode)
                      /\ UNCHANGED << last_synced_block, sync_cur, sync_end, tasks,
                                      sync_from >>
                 ELSE /\ pc' = "sync"
                      /\ sync_cur' = last_synced_block + 1
                      /\ sync_end' = latest_block_num
                      /\ tasks' = spawn_batch(last_synced_block + 1, latest_block_num)
                      /\ sync_from' = IF sync_from = None THEN last_synced_block + 1
                                      ELSE sync_from
                      /\ UNCHANGED last_synced_block
            ELSE IF backtrace = 0
            THEN /\ last_synced_block' = latest_block_num
                 /\ pc' = SteadyPc(mode)
                 /\ sync_from' = IF sync_from = None THEN latest_block_num + 1
                                 ELSE sync_from
                 /\ UNCHANGED << sync_cur, sync_end, tasks >>
            ELSE /\ pc' = "sync"
                 /\ sync_cur' = cold_start_block(latest_block_num, backtrace)
                 /\ sync_end' = latest_block_num
                 /\ tasks' = spawn_batch(cold_start_block(latest_block_num, backtrace),
                                         latest_block_num)
                 /\ sync_from' = IF sync_from = None
                                 THEN cold_start_block(latest_block_num, backtrace)
                                 ELSE sync_from
                 /\ UNCHANGED last_synced_block
    /\ UNCHANGED << store_hist, liq_vars >>
    /\ UNCHANGED << chain, head, now, backtrace, params, positions, auctions, mode,
                    processed_events, poll_idx, pending_resets, timers, reset_txs,
                    calc_in, calc_out, rt_delivered, poll_applied, replay_effect,
                    applied_blocks, auction_removed, ev_count, crashes >>

\* sync_single_block, lines 370-381 and 416-419: the getLogs call of the task of
\* block b.  A failed call is logged and the task returns Ok(0).
sync_single_block_fetch(b) ==
    /\ pc = "sync"
    /\ b \in DOMAIN tasks
    /\ tasks[b].st = "spawned"
    /\ \E fetch_ok \in BOOLEAN :
        IF fetch_ok
        THEN IF Len(LogsOf(b)) = 0
             THEN /\ tasks' = [tasks EXCEPT ![b].st = "done"]
                  /\ applied_blocks' = applied_blocks \cup {b}
             ELSE /\ tasks' = [tasks EXCEPT ![b] = [st |-> "logs", idx |-> 1]]
                  /\ UNCHANGED applied_blocks
        ELSE /\ tasks' = [tasks EXCEPT ![b].st = "done"]
             /\ UNCHANGED applied_blocks
    /\ UNCHANGED << store_hist, liq_vars >>
    /\ UNCHANGED << chain, head, now, backtrace, params, positions, auctions,
                    last_synced_block, pc, mode, processed_events, sync_cur, sync_end,
                    poll_idx, pending_resets, timers, reset_txs, calc_in, calc_out,
                    rt_delivered, poll_applied, replay_effect, sync_from,
                    auction_removed, ev_count, crashes >>

\* sync_single_block, lines 385-408: the task of block b applies its next log.
\* A panic of the applier ends the task (a JoinError for sync_block_range).
sync_single_block_apply(b) ==
    /\ pc = "sync"
    /\ b \in DOMAIN tasks
    /\ tasks[b].st = "logs"
    /\ LET log == LogsOf(b)[tasks[b].idx]
           w == apply_log_static(W, log, now)
           last == tasks[b].idx = Len(LogsOf(b))
       IN  /\ SetW(w)
           /\ tasks' = [tasks EXCEPT ![b] =
                   IF w.panicked THEN [st |-> "panicked", idx |-> @.idx]
                   ELSE IF last THEN [st |-> "done", idx |-> @.idx]
                   ELSE [st |-> "logs", idx |-> @.idx + 1]]
           /\ applied_blocks' = IF last /\ ~w.panicked THEN applied_blocks \cup {b}
                                ELSE applied_blocks
           /\ replay_effect' =
                   IF StoreContent(w) # StoreContent(W)
                   THEN [replay_effect EXCEPT ![EventIdOf(log)] = Bump(@)]
                   ELSE replay_effect
    /\ UNCHANGED << store_hist, liq_vars >>
    /\ UNCHANGED << chain, head, now, backtrace, last_synced_block, pc, mode,
                    processed_events, sync_cur, sync_end, poll_idx, calc_in, calc_out,
                    rt_delivered, poll_applied, sync_from, crashes >>

\* A variant of the wait for the handles that a task failure holds up.
BatchJoinedWithoutFailure == \A b \in DOMAIN tasks : tasks[b].st = "done"

BatchJoined == \A b \in DOMAIN tasks : tasks[b].st \in {"done", "panicked"}

\* sync_block_range, lines 333-353: every handle of the batch has been awaited; the
\* cursor is set to batch_end and the next batch spawned, or the replay is over.
sync_block_range_join ==
    /\ pc = "sync"
    /\ BatchJoined
    /\ LET batch_end == batch_end_of(sync_cur, sync_end)
       IN  /\ last_synced_block' = batch_end
           /\ sync_cur' = batch_end + 1
           /\ IF batch_end + 1 <= sync_end
              THEN /\ tasks' = spawn_batch(batch_end + 1, sync_end)
                   /\ pc' = "sync"
              ELSE /\ tasks' = << >>
                   /\ pc' = SteadyPc(mode)
    /\ UNCHANGED << store_hist, liq_vars >>
    /\ UNCHANGED << chain, head, now, backtrace, params, positions, auctions, mode,
                    processed_events, sync_end, poll_idx, pending_resets, timers,
                    reset_txs, calc_in, calc_out, rt_delivered, poll_applied,
                    replay_effect, applied_blocks, sync_from, auction_removed,
                    ev_count, crashes >>

-----------------------------------------------------------------------------
(* events.rs: real-time mode *)

\* A variant without the de-duplication check.
is_duplicate_never(pe, event_id) == FALSE

\* The de-duplication check of process_block_events, lines 865-868.
is_duplicate(pe, event_id) == event_id \in pe

\* A variant that moves the cursor only for a block with newly applied logs.
cursor_advances_on_events_only(processed_count, block_number) == processed_count > 0

\* The cursor condition of process_block_events, line 901.
cursor_advances(processed_count, block_number) ==
    processed_count > 0 \/ block_number > 0

\* The loop over the logs of the block, lines 857-894.  acc = [w, pe, count].
RECURSIVE process_block_logs(_, _, _, _, _)
process_block_logs(acc, logs, i, t, sent) ==
    IF i > Len(logs) \/ acc.w.panicked THEN acc
    ELSE IF is_duplicate(acc.pe, EventIdOf(logs[i]))
    THEN process_block_logs(acc, logs, i + 1, t, sent)
    ELSE LET w1 == apply_log(acc.w, logs[i], t, sent)
         IN  process_block_logs(
                 [ w |-> w1,
                   pe |-> IF w1.panicked THEN acc.pe
                          ELSE acc.pe \cup {EventIdOf(logs[i])},
                   count |-> IF w1.panicked THEN acc.count ELSE acc.count + 1 ],
                 logs, i + 1, t, sent)

\* The headers the subscription can deliver: the head, or a block re-announced
\* after a reorganisation of at most ReorgDepth blocks.
Headers == { b \in Blocks : b >= 1 /\ b <= head /\ b >= head - ReorgDepth }

\* A variant of process_block_events(b) that marks no event as processed.
process_block_events_unmarked(b) ==
    /\ pc = "realtime"
    /\ b \in Headers
    /\ \E sent \in BOOLEAN :
        \E acc \in { process_block_logs(
                         [w |-> W, pe |-> processed_events, count |-> 0],
                         LogsOf(b), 1, now, sent) } :
            /\ WithinBounds(acc.w)
            /\ SetW(acc.w)
            /\ processed_events' = processed_events
            /\ IF acc.w.panicked
               THEN /\ pc' = "dead"
                    /\ UNCHANGED << last_synced_block, rt_delivered, applied_blocks,
                                    sync_from >>
               ELSE /\ pc' = pc
                    /\ last_synced_block' =
                           IF cursor_advances(acc.count, b) THEN b ELSE last_synced_block
                    /\ rt_delivered' = [rt_delivered EXCEPT ![b] = Bump(@)]
                    /\ applied_blocks' = applied_blocks \cup {b}
                    /\ sync_from' = IF sync_from = None THEN b ELSE sync_from
    /\ UNCHANGED << store_hist, liq_vars >>
    /\ UNCHANGED << chain, head, now, backtrace, mode, sync_cur, sync_end, tasks,
                    poll_idx, calc_in, calc_out, poll_applied, replay_effect, crashes >>

\* process_block_events(b) with the getLogs call answered.
process_block_events(b) ==
    /\ pc = "realtime"
    /\ b \in Headers
    /\ \E sent \in BOOLEAN :
        \E acc \in { process_block_logs(
                         [w |-> W, pe |-> processed_events, count |-> 0],
                         LogsOf(b), 1, now, sent) } :
            /\ WithinBounds(acc.w)
            /\ SetW(acc.w)
            /\ processed_events' = acc.pe
            /\ IF acc.w.panicked
               THEN /\ pc' = "dead"
                    /\ UNCHANGED << last_synced_block, rt_delivered, applied_blocks,
                                    sync_from >>
               ELSE /\ pc' = pc
                    /\ last_synced_block' =
                           IF cursor_advances(acc.count, b) THEN b ELSE last_synced_block
                    /\ rt_delivered' = [rt_delivered EXCEPT ![b] = Bump(@)]
                    /\ applied_blocks' = applied_blocks \cup {b}
                    /\ sync_from' = IF sync_from = None THEN b ELSE sync_from
    /\ UNCHANGED << store_hist, liq_vars >>
    /\ UNCHANGED << chain, head, now, backtrace, mode, sync_cur, sync_end, tasks,
                    poll_idx, calc_in, calc_out, poll_applied, replay_effect, crashes >>

\* process_block_events(b) with the getLogs call failing, lines 905-907: a warning.
process_block_events_fetch_failed(b) ==
    /\ pc = "realtime"
    /\ b \in Headers
    /\ UNCHANGED vars

\* A variant where the subscription error ends the task.
subscription_error_ends_task ==
    /\ pc = "realtime"
    /\ mode' = "Polling"
    /\ pc' = "dead"
    /\ poll_idx' = 1
    /\ UNCHANGED << store_hist, liq_vars >>
    /\ UNCHANGED << chain, head, now, backtrace, params, positions, auctions,
                    last_synced_block, processed_events, sync_cur, sync_end, tasks,
                    pending_resets, timers, reset_txs, calc_in, calc_out, rt_delivered,
                    poll_applied, replay_effect, applied_blocks, sync_from,
                    auction_removed, ev_count, crashes >>

\* run_realtime_mode, lines 197-203: the subscription yields an error.
subscription_error ==
    /\ pc = "realtime"
    /\ mode' = "Polling"
    /\ pc' = "polling"
    /\ poll_idx' = 1
    /\ UNCHANGED << store_hist, liq_vars >>
    /\ UNCHANGED << chain, head, now, backtrace, params, positions, auctions,
                    last_synced_block, processed_events, sync_cur, sync_end, tasks,
                    pending_resets, timers, reset_txs, calc_in, calc_out, rt_delivered,
                    poll_applied, replay_effect, applied_blocks, sync_from,
                    auction_removed, ev_count, crashes >>

-----------------------------------------------------------------------------
(* events.rs: polling mode *)

\* monitor_all_events: the three monitors of a cycle in order, each with the
\* (event name, signature) pairs it builds its filters from.
PollMonitors ==
    << [contract |-> "interest_manager",
        events |-> << [event_name |-> "InterestRateChanged", sig |-> SigInterestRateChanged],
                      [event_name |-> "PositionIncreased", sig |-> SigPositionIncreased6],
                      [event_name |-> "PositionOpened", sig |-> SigPositionOpened],
                      [event_name |-> "InterestCollected", sig |-> SigInterestCollected] >>],
       [contract |-> "liquidation_manager",
        events |-> << [event_name |-> "ParameterChanged", sig |-> SigParameterChanged],
                      [event_name |-> "LiquidationConfigInfo",
                       sig |-> SigLiquidationConfigInfo],
                      [event_name |-> "NetValueAdjusted", sig |-> SigNetValueAdjusted] >>],
       [contract |-> "auction_manager",
        events |-> << [event_name |-> "ParameterChanged", sig |-> SigParameterChanged],
                      [event_name |-> "AuctionStarted", sig |-> SigAuctionStarted],
                      [event_name |-> "AuctionReset", sig |-> SigAuctionReset],
                      [event_name |-> "AuctionRemoved", sig |-> SigAuctionRemoved] >>] >>

\* eth_getLogs of a filter with an address and topic[0] and no block range: the
\* matching logs of the latest block.
RECURSIVE filter_logs(_, _, _, _)
filter_logs(logs, contract, sig, i) ==
    IF i > Len(logs) THEN << >>
    ELSE IF logs[i].address = contract /\ logs[i].sig = sig
    THEN << logs[i] >> \o filter_logs(logs, contract, sig, i + 1)
    ELSE filter_logs(logs, contract, sig, i + 1)

\* process_*_event(event_name, log) as the monitor_* loops call it.
poll_apply(w, contract, event_name, log, t, sent) ==
    CASE contract = "interest_manager" -> process_interest_event(w, event_name, log, t)
      [] contract = "liquidation_manager" ->
            process_liquidation_event(w, event_name, log, t)
      [] OTHER -> process_auction_event(w, event_name, log, t, sent)

\* The loop over the logs a filter returned; an Err of the applier ends the
\* cycle (the ? of lines 1328, 1359, 1391).  acc = [w, applied].
RECURSIVE poll_logs(_, _, _, _, _, _, _)
poll_logs(acc, contract, event_name, logs, i, t, sent) ==
    IF i > Len(logs) \/ acc.w.panicked \/ acc.w.err THEN acc
    ELSE LET w1 == poll_apply(acc.w, contract, event_name, logs[i], t, sent)
         IN  poll_logs(
                 [ w |-> w1,
                   applied |-> IF StoreContent(w1) # StoreContent(acc.w)
                               THEN [acc.applied EXCEPT ![EventIdOf(logs[i])] = Bump(@)]
                               ELSE acc.applied ],
                 contract, event_name, logs, i + 1, t, sent)

\* monitor_*_events: the loop over the events of one monitor.  ok is the set of
\* filters whose getLogs call succeeds; a failed call is logged and skipped.
RECURSIVE monitor_events(_, _, _, _, _, _, _)
monitor_events(acc, m, j, ok, latest, t, sent) ==
    IF j > Len(m.events) \/ acc.w.panicked \/ acc.w.err THEN acc
    ELSE LET logs == IF j \in ok
                     THEN filter_logs(LogsOf(latest), m.contract, m.events[j].sig, 1)
                     ELSE << >>
         IN  monitor_events(
                 poll_logs(acc, m.contract, m.events[j].event_name, logs, 1, t, sent),
                 m, j + 1, ok, latest, t, sent)

\* calculate_event_priority: negative to keep, positive to clean.
calculate_event_priority(event_id) ==
    IF event_id.block_number > PRIORITY_BLOCK THEN 0 - 1 ELSE 1

\* estimate_block_timestamp: no code of the keeper writes the block timestamp
\* table, so the fallback estimate is returned.
estimate_block_timestamp_fallback(block_number) ==
    IF block_number >= BASE_BLOCK
    THEN BASE_TIMESTAMP + (block_number - BASE_BLOCK) * SECONDS_PER_BLOCK
    ELSE saturating_sub(BASE_TIMESTAMP, (BASE_BLOCK - block_number) * SECONDS_PER_BLOCK)
estimate_block_timestamp(block_number) == estimate_block_timestamp_fallback(block_number)

\* cleanup_processed_events_cache, lines 1032-1043: the metadata of an event.
EventMetadata(event_id, t) ==
    [ event_id |-> event_id,
      timestamp |-> estimate_block_timestamp(event_id.block_number),
      is_hot |-> estimate_block_timestamp(event_id.block_number)
                     >= saturating_sub(t, CLEANUP_TIME_WINDOW),
      priority |-> calculate_event_priority(event_id) ]

\* The orders in which the HashSet is iterated: by EventId, upwards or downwards.
IterationOrders == {"up", "down"}
EventIdBefore(e1, e2) ==
    \/ e1.block_number < e2.block_number
    \/ /\ e1.block_number = e2.block_number
       /\ \/ e1.transaction_index < e2.transaction_index
          \/ /\ e1.transaction_index = e2.transaction_index
             /\ e1.log_index < e2.log_index
IteratedBefore(e1, e2, ord) ==
    IF ord = "up" THEN EventIdBefore(e1, e2) ELSE EventIdBefore(e2, e1)

\* The comparison of the sort, lines 1047-1056: expired before hot, then by
\* priority, then by timestamp.  -1, 0 or 1 for Less, Equal or Greater.
metadata_cmp(a, b) ==
    IF a.is_hot /\ ~b.is_hot THEN 1
    ELSE IF ~a.is_hot /\ b.is_hot THEN 0 - 1
    ELSE IF a.priority # b.priority THEN (IF a.priority < b.priority THEN 0 - 1 ELSE 1)
    ELSE IF a.timestamp # b.timestamp THEN (IF a.timestamp < b.timestamp THEN 0 - 1 ELSE 1)
    ELSE 0

\* event_metadata after the stable sort_by: equal elements stay in iteration order.
RECURSIVE sorted_metadata(_, _, _)
sorted_metadata(pe, t, ord) ==
    IF pe = {} THEN << >>
    ELSE LET first == CHOOSE x \in pe : \A y \in pe \ {x} :
                          LET c == metadata_cmp(EventMetadata(x, t), EventMetadata(y, t))
                          IN  c < 0 \/ (c = 0 /\ IteratedBefore(x, y, ord))
         IN  << EventMetadata(first, t) >> \o sorted_metadata(pe \ {first}, t, ord)

\* aggressive_cleanup, lines 1152-1162: the first round.  acc is
\* [to_remove, retained, remove_count].
RECURSIVE aggressive_first_round(_, _, _, _)
aggressive_first_round(metadata, i, acc, t) ==
    IF i > Len(metadata) THEN acc
    ELSE IF metadata[i].timestamp < saturating_sub(t, CLEANUP_TIME_WINDOW)
    THEN aggressive_first_round(metadata, i + 1,
             [acc EXCEPT !.to_remove = Append(@, metadata[i].event_id),
                         !.remove_count = @ + 1], t)
    ELSE LET acc1 == [acc EXCEPT !.retained = @ \cup {metadata[i].event_id}]
         IN  IF Cardinality(acc1.retained) >= AGGRESSIVE_RETAIN THEN acc1
             ELSE aggressive_first_round(metadata, i + 1, acc1, t)

\* aggressive_cleanup, lines 1167-1175: the second round, over metadata.iter().rev().
RECURSIVE aggressive_second_round(_, _, _, _)
aggressive_second_round(metadata, i, acc, len) ==
    IF i < 1 THEN acc
    ELSE IF metadata[i].event_id \notin acc.retained
    THEN LET acc1 == [acc EXCEPT !.to_remove = Append(@, metadata[i].event_id),
                                 !.remove_count = @ + 1]
         IN  IF len - acc1.remove_count <= TARGET_CACHE_SIZE THEN acc1
             ELSE aggressive_second_round(metadata, i - 1, acc1, len)
    ELSE aggressive_second_round(metadata, i - 1, acc, len)

aggressive_cleanup(metadata, len, t) ==
    LET acc == aggressive_first_round(metadata, 1,
                   [to_remove |-> << >>, retained |-> {}, remove_count |-> 0], t)
    IN  IF len - acc.remove_count > AGGRESSIVE_TRIGGER
        THEN aggressive_second_round(metadata, Len(metadata), acc, len)
        ELSE acc

\* balanced_cleanup, lines 1180-1196, over metadata.iter().rev().
RECURSIVE balanced_round(_, _, _, _)
balanced_round(metadata, i, acc, target_removals) ==
    IF i < 1 \/ target_removals = 0 THEN acc
    ELSE IF metadata[i].priority > 0 /\ ~metadata[i].is_hot
    THEN balanced_round(metadata, i - 1,
             [acc EXCEPT !.to_remove = Append(@, metadata[i].event_id),
                         !.remove_count = @ + 1], target_removals - 1)
    ELSE balanced_round(metadata, i - 1,
             [acc EXCEPT !.retained = @ \cup {metadata[i].event_id}], target_removals)

balanced_cleanup(metadata, len) ==
    balanced_round(metadata, Len(metadata),
        [to_remove |-> << >>, retained |-> {}, remove_count |-> 0],
        saturating_sub(saturating_sub(len, TARGET_CACHE_SIZE), MIN_RETAIN_SIZE))

\* Vec::swap_remove(i) on a 0-based index: the last element takes the place of
\* the removed one.
swap_remove(v, i) ==
    IF i + 1 = Len(v) THEN SubSeq(v, 1, Len(v) - 1)
    ELSE [SubSeq(v, 1, Len(v) - 1) EXCEPT ![i + 1] = v[Len(v)]]

\* post_cleanup_validation, lines 1211-1223: i runs over (0..n).rev().
RECURSIVE recover_events(_, _)
recover_events(acc, i) ==
    IF i < 0 THEN acc
    ELSE recover_events(
             [acc EXCEPT !.retained = @ \cup {acc.to_remove[i + 1]},
                         !.to_remove = swap_remove(@, i)],
             i - 1)
\* A variant of post_cleanup_validation that recovers nothing.
post_cleanup_validation_off(acc, pe, min_retain) == acc
post_cleanup_validation(acc, pe, min_retain) ==
    IF Cardinality(acc.retained) < min_retain /\ pe # {}
    THEN recover_events(acc,
             Min(saturating_sub(min_retain, Cardinality(acc.retained)),
                 Len(acc.to_remove)) - 1)
    ELSE acc

\* cleanup_processed_events_cache at time t with the set iterated in order ord:
\* the events to remove.  A set above SOFT_CACHE_SIZE is never of the Light
\* urgency, so conservative_cleanup is not reached.
events_to_remove(pe, t, ord) ==
    LET metadata == sorted_metadata(pe, t, ord)
        len == Cardinality(pe)
        acc == IF len >= MAX_CACHE_SIZE
               THEN aggressive_cleanup(metadata, len, t)
               ELSE balanced_cleanup(metadata, len)
        val == post_cleanup_validation(acc, pe, MIN_RETAIN_SIZE)
    IN  { val.to_remove[i] : i \in 1..Len(val.to_remove) }

cleanup_processed_events_cache(pe, t, ord) ==
    IF Cardinality(pe) <= SOFT_CACHE_SIZE THEN pe
    ELSE pe \ events_to_remove(pe, t, ord)

\* The sets cleanup_processed_events_cache can leave.
cleanup_results(pe, t) ==
    { cleanup_processed_events_cache(pe, t, ord) : ord \in IterationOrders }

\* The outcomes of eth_sendTransaction a handler of the contract can meet: only
\* the auction manager's handlers reach execute_auction_reset.
SendOutcomes(contract) == IF contract = "auction_manager" THEN BOOLEAN ELSE {TRUE}

\* run_polling_mode / monitor_all_events: the next monitor of the cycle runs.  The
\* first monitor of a cycle follows the interval tick and the cache cleanup; an
\* Err ends the cycle.
poll_monitor ==
    /\ pc = "polling"
    /\ \E pe \in cleanup_results(processed_events, now) :
        \E acc \in { monitor_events([w |-> W, applied |-> poll_applied],
                                     PollMonitors[poll_idx], 1, ok, head, now, sent) :
                         ok \in SUBSET (1..Len(PollMonitors[poll_idx].events)),
                         sent \in SendOutcomes(PollMonitors[poll_idx].contract) } :
            /\ WithinBounds(acc.w)
            /\ SetW(acc.w)
            /\ poll_applied' = acc.applied
            /\ processed_events' = IF poll_idx = 1 THEN pe ELSE processed_events
            /\ pc' = IF acc.w.panicked THEN "dead" ELSE pc
            /\ poll_idx' = IF acc.w.err \/ poll_idx = Len(PollMonitors) THEN 1
                           ELSE poll_idx + 1
    /\ UNCHANGED << store_hist, liq_vars >>
    /\ UNCHANGED << chain, head, now, backtrace, last_synced_block, mode, sync_cur,
                    sync_end, tasks, calc_in, calc_out, rt_delivered, replay_effect,
                    applied_blocks, sync_from, crashes >>

-----------------------------------------------------------------------------
(* The environment of the ingestion pipeline *)

\* The chain grows by one block.
new_block ==
    /\ head < MaxBlock
    /\ head' = head + 1
    /\ UNCHANGED << store_hist, liq_vars >>
    /\ UNCHANGED << chain, now, backtrace, params, positions, auctions,
                    last_synced_block, pc, mode, processed_events, sync_cur, sync_end,
                    tasks, poll_idx, pending_resets, timers, reset_txs, calc_in,
                    calc_out, rt_delivered, poll_applied, replay_effect,
                    applied_blocks, sync_from, auction_removed, ev_count, crashes >>

\* The process stops (a crash, a kill, or the exit after a panic of the monitor
\* task) and is started again with the same configuration: the database is
\* kept, the memory is not (EventMonitor::new, AuctionResetMonitor::new).
crash_restart ==
    /\ crashes < MaxCrashes
    /\ crashes' = crashes + 1
    /\ pc' = "init"
    /\ processed_events' = {}
    /\ rt_delivered' = [b \in Blocks |-> 0]
    /\ sync_cur' = 0
    /\ sync_end' = 0
    /\ tasks' = << >>
    /\ poll_idx' = 1
    /\ pending_resets' = << >>
    /\ timers' = << >>
    /\ UNCHANGED << store_hist, liq_vars >>
    /\ UNCHANGED << chain, head, now, backtrace, mode, params, positions, auctions,
                    last_synced_block, reset_txs, calc_in, calc_out, poll_applied,
                    replay_effect, applied_blocks, sync_from, auction_removed,
                    ev_count >>

-----------------------------------------------------------------------------
(* Spec: the ingestion pipeline *)

\* The chain of the ingestion runs: the Mint of a position of 3 units and an
\* InterestCollected that deducts 1 unit from it; every other block is empty.
IngestChain ==
    [b \in Blocks |->
        CASE b = 1 -> << MintLog(1, 0, "U1", 1, 1, WAD, 3) >>
          [] b = 2 -> << InterestCollectedLog(2, 0, "U1", 1, 1, 0) >>
          [] OTHER -> << >>]

InitIdle ==
    /\ now = 0
    /\ params = << >>
    /\ positions = << >>
    /\ auctions = << >>
    /\ last_synced_block = None
    /\ processed_events = {}
    /\ sync_cur = 0
    /\ sync_end = 0
    /\ tasks = << >>
    /\ poll_idx = 1
    /\ pending_resets = << >>
    /\ timers = << >>
    /\ reset_txs = << >>
    /\ calc_in = << 0, 0, 0 >>
    /\ calc_out = 0
    /\ rt_delivered = [b \in Blocks |-> 0]
    /\ applied_blocks = {}
    /\ sync_from = None
    /\ auction_removed = {}
    /\ ev_count = << >>
    /\ crashes = 0
    /\ prev_store = << >>
    /\ last_event = << >>
    /\ current_price = 0
    /\ nav_results = << >>
    /\ liquidatable = << >>
    /\ read_params = << >>
    /\ bark_attempts = << >>
    /\ iteration = 0

Init ==
    /\ InitIdle
    /\ chain = IngestChain
    /\ head = 1
    /\ backtrace \in {0, 2}
    /\ pc = "init"
    /\ mode \in {"Realtime", "Polling"}
    /\ poll_applied = [e \in EventIds |-> 0]
    /\ replay_effect = [e \in EventIds |-> 0]

Next ==
    \/ perform_initial_sync
    \/ \E b \in Blocks : sync_single_block_fetch(b)
    \/ \E b \in Blocks : sync_single_block_apply(b)
    \/ sync_block_range_join
    \/ \E b \in Blocks : process_block_events(b)
    \/ \E b \in Blocks : process_block_events_fetch_failed(b)
    \/ subscription_error
    \/ poll_monitor
    \/ new_block
    \/ crash_restart

Spec == Init /\ [][Next]_vars

-----------------------------------------------------------------------------
(* SpecReset: the reset scheduler.  The monitor is in real-time mode; the logs *)
(* of the auction manager reach it one at a time through the dispatch of      *)
(* process_block_events, interleaved with the clock and the spawned tasks.    *)

AuctionIds == {7, 8}
StartingPrices == {0, WAD}

\* The logs the auction manager can emit in block b.
AuctionLogs(b) ==
    { AuctionStartedLog(b, 0, id, p) : id \in AuctionIds, p \in StartingPrices }
    \cup { AuctionResetLog(b, 0, id, p) : id \in AuctionIds, p \in StartingPrices }
    \cup { AuctionRemovedLog(b, 0, id) : id \in AuctionIds }
    \cup { ParameterChangedLog(b, 0, "auction_manager", "priceDropThreshold",
                                WAD \div 2) }

\* The next block carries one log of the auction manager, which is applied
\* (process_auction_event_from_log).
deliver_auction_log ==
    /\ pc = "reset"
    /\ head < MaxLogs
    /\ head' = head + 1
    /\ \E log \in AuctionLogs(head + 1), sent \in BOOLEAN :
        \E w \in { apply_log(W, log, now, sent) } :
            /\ WithinBounds(w)
            /\ SetW(w)
    /\ UNCHANGED << store_hist, liq_vars >>
    /\ UNCHANGED << chain, now, backtrace, last_synced_block, pc, mode,
                    processed_events, sync_cur, sync_end, tasks, poll_idx, calc_in,
                    calc_out, rt_delivered, poll_applied, replay_effect,
                    applied_blocks, sync_from, crashes >>

\* One second of wall-clock time passes.
tick ==
    /\ pc = "reset"
    /\ now < MaxTime
    /\ now' = now + 1
    /\ UNCHANGED << store_hist, liq_vars >>
    /\ UNCHANGED << chain, head, backtrace, params, positions, auctions,
                    last_synced_block, pc, mode, processed_events, sync_cur, sync_end,
                    tasks, poll_idx, pending_resets, timers, reset_txs, calc_in,
                    calc_out, rt_delivered, poll_applied, replay_effect,
                    applied_blocks, sync_from, auction_removed, ev_count, crashes >>

\* start_reset_task, lines 119-148: the task of timer i wakes and looks the auction up.
timer_wake(i) ==
    /\ pc = "reset"
    /\ i \in DOMAIN timers
    /\ timers[i].pc = "sleeping"
    /\ TimerDue(timers[i], now)
    /\ timers' = [timers EXCEPT ![i] =
           [@ EXCEPT !.pc = IF timer_should_reset(W, timers[i].auction_id)
                            THEN "resetting" ELSE "done",
                     !.fired_removed = timers[i].auction_id \in auction_removed]]
    /\ UNCHANGED << store_hist, liq_vars >>
    /\ UNCHANGED << chain, head, now, backtrace, params, positions, auctions,
                    last_synced_block, pc, mode, processed_events, sync_cur, sync_end,
                    tasks, poll_idx, pending_resets, reset_txs, calc_in, calc_out,
                    rt_delivered, poll_applied, replay_effect, applied_blocks,
                    sync_from, auction_removed, ev_count, crashes >>

\* start_reset_task, lines 137-139: the woken task calls execute_auction_reset.
timer_execute(i) ==
    /\ pc = "reset"
    /\ i \in DOMAIN timers
    /\ timers[i].pc = "resetting"
    /\ \E sent \in BOOLEAN :
        LET w == execute_auction_reset(W, timers[i].auction_id, now, "timer", i, sent)
        IN  /\ WithinBounds(w)
            /\ reset_txs' = w.reset_txs
    /\ timers' = [timers EXCEPT ![i].pc = "done"]
    /\ UNCHANGED << store_hist, liq_vars >>
    /\ UNCHANGED << chain, head, now, backtrace, params, positions, auctions,
                    last_synced_block, pc, mode, processed_events, sync_cur, sync_end,
                    tasks, poll_idx, pending_resets, calc_in, calc_out, rt_delivered,
                    poll_applied, replay_effect, applied_blocks, sync_from,
                    auction_removed, ev_count, crashes >>

InitReset ==
    /\ InitIdle
    /\ chain = [b \in Blocks |-> << >>]
    /\ head = 0
    /\ backtrace = 0
    /\ pc = "reset"
    /\ mode = "Realtime"
    /\ poll_applied = << >>
    /\ replay_effect = << >>

NextReset ==
    \/ deliver_auction_log
    \/ tick
    \/ \E i \in 1..MaxTimers : timer_wake(i)
    \/ \E i \in 1..MaxTimers : timer_execute(i)

SpecReset == InitReset /\ [][NextReset]_vars

-----------------------------------------------------------------------------
(* SpecCalc: calculate_reset_duration on every input of the bounded domain *)

CalcPrices == 0..MaxPrice \cup {U256_MAX \div WAD, U256_MAX}
CalcThresholds == 0..(WAD + 1)
CalcResetTimes == 0..MaxResetTime

calculate ==
    /\ pc = "calc"
    /\ calc_out' = calculate_reset_duration(calc_in[1], calc_in[2], calc_in[3])
    /\ pc' = "calc_done"
    /\ UNCHANGED << store_hist, liq_vars >>
    /\ UNCHANGED << chain, head, now, backtrace, params, positions, auctions,
                    last_synced_block, mode, processed_events, sync_cur, sync_end,
                    tasks, poll_idx, pending_resets, timers, reset_txs, calc_in,
                    rt_delivered, poll_applied, replay_effect, applied_blocks,
                    sync_from, auction_removed, ev_count, crashes >>

InitCalc ==
    /\ now = 0
    /\ params = << >>
    /\ positions = << >>
    /\ auctions = << >>
    /\ last_synced_block = None
    /\ processed_events = {}
    /\ sync_cur = 0
    /\ sync_end = 0
    /\ tasks = << >>
    /\ poll_idx = 1
    /\ pending_resets = << >>
    /\ timers = << >>
    /\ reset_txs = << >>
    /\ calc_in \in CalcPrices \X CalcThresholds \X CalcResetTimes
    /\ calc_out = 0
    /\ rt_delivered = << >>
    /\ applied_blocks = {}
    /\ sync_from = None
    /\ auction_removed = {}
    /\ ev_count = << >>
    /\ crashes = 0
    /\ prev_store = << >>
    /\ last_event = << >>
    /\ current_price = 0
    /\ nav_results = << >>
    /\ liquidatable = << >>
    /\ read_params = << >>
    /\ bark_attempts = << >>
    /\ iteration = 0
    /\ chain = << >>
    /\ head = 0
    /\ backtrace = 0
    /\ pc = "calc"
    /\ mode = "Realtime"
    /\ poll_applied = << >>
    /\ replay_effect = << >>

NextCalc == calculate

SpecCalc == InitCalc /\ [][NextCalc]_vars

-----------------------------------------------------------------------------
(* SpecStore: the event appliers on every event of a bounded domain.  Events  *)
(* of the four contracts reach the store one at a time, through the dispatch  *)
(* of process_block_events or that of sync_single_block, while the wall clock *)
(* advances.                                                                  *)

StoreAmounts == 0..MaxAmount
StoreInterests == 0..MaxInterest
\* The amounts a Mint or a NetValueAdjusted creates a position with.
CreatedAmounts == {0, MaxAmount}
\* The leverage bytes carried: a Moderate Mint, an Aggressive adjustment, and the
\* byte 3 that LeverageType::from_u8 rejects.
MintLeverageBytes == {1, 3}
AdjustLeverageBytes == {2, 3}

\* The events applied: the position events of the key ("U1", 1), where a
\* NetValueAdjusted moves from token 2 to token 1, and the parameter events.
StoreLogs ==
    { MintLog(0, 0, "U1", 1, lev, WAD, la) :
        lev \in MintLeverageBytes, la \in CreatedAmounts }
    \cup { NetValueAdjustedLog(0, 0, "U1", 2, 1, lev, 2 * WAD, aa) :
        lev \in AdjustLeverageBytes, aa \in CreatedAmounts }
    \cup { PositionIncreasedLog(0, 0, "U1", 1, ta, ti) :
        ta \in StoreAmounts, ti \in StoreInterests }
    \cup { InterestCollectedLog(0, 0, "U1", 1, d, ia) :
        d \in StoreAmounts, ia \in StoreInterests }
    \cup { ParameterChangedLog(0, 0, "liquidation_manager", "liquidationThreshold", WAD),
           ParameterChangedLog(0, 0, "auction_manager", "resetTime",
                               DefaultParams.reset_time),
           LiquidationConfigInfoLog(0, 0, DefaultParams.adjustment_threshold, WAD,
                                    DefaultParams.penalty),
           InterestRateChangedLog(0, 0, 0, 5),
           AuctionRemovedLog(0, 0, 7) }

\* The mirrored tables.
Store == [ params |-> params, positions |-> positions, auctions |-> auctions ]

\* One event is dispatched to its handler, by process_block_events (real time)
\* or by sync_single_block (replay).  A panic of the handler ends the task.  The
\* history of the auction events is not kept here.
apply_event ==
    /\ pc = "store"
    /\ \E log \in StoreLogs :
        \E w \in { apply_log(W, log, now, TRUE), apply_log_static(W, log, now) } :
            /\ params' = w.params
            /\ positions' = w.positions
            /\ auctions' = w.auctions
            /\ pending_resets' = w.pending_resets
            /\ pc' = IF w.panicked THEN "dead" ELSE pc
            /\ prev_store' = Store
            /\ last_event' = << log >>
    /\ UNCHANGED liq_vars
    /\ UNCHANGED << chain, head, now, backtrace, last_synced_block, mode,
                    processed_events, sync_cur, sync_end, tasks, poll_idx, timers,
                    reset_txs, calc_in, calc_out, rt_delivered, poll_applied,
                    replay_effect, applied_blocks, sync_from, auction_removed,
                    ev_count, crashes >>

\* One second of wall-clock time passes between two events.
store_tick ==
    /\ pc = "store"
    /\ now < MaxStoreTime
    /\ now' = now + 1
    /\ UNCHANGED << store_hist, liq_vars >>
    /\ UNCHANGED << chain, head, backtrace, params, positions, auctions,
                    last_synced_block, pc, mode, processed_events, sync_cur, sync_end,
                    tasks, poll_idx, pending_resets, timers, reset_txs, calc_in,
                    calc_out, rt_delivered, poll_applied, replay_effect,
                    applied_blocks, sync_from, auction_removed, ev_count, crashes >>

\* The auction a replay of AuctionStarted stores.
StoredAuction ==
    AuctionInfoOf(AuctionStartedLog(0, 0, 7, WAD), 0)

\* A database where a replay has stored auction 7 and nothing else.
InitStore ==
    /\ now = 0
    /\ params = << >>
    /\ positions = << >>
    /\ auctions = Put(<< >>, 7, StoredAuction)
    /\ last_synced_block = None
    /\ processed_events = {}
    /\ sync_cur = 0
    /\ sync_end = 0
    /\ tasks = << >>
    /\ poll_idx = 1
    /\ pending_resets = << >>
    /\ timers = << >>
    /\ reset_txs = << >>
    /\ calc_in = << 0, 0, 0 >>
    /\ calc_out = 0
    /\ rt_delivered = << >>
    /\ applied_blocks = {}
    /\ sync_from = None
    /\ auction_removed = {}
    /\ ev_count = << >>
    /\ crashes = 0
    /\ prev_store = << >>
    /\ last_event = << >>
    /\ current_price = 0
    /\ nav_results = << >>
    /\ liquidatable = << >>
    /\ read_params = << >>
    /\ bark_attempts = << >>
    /\ iteration = 0
    /\ chain = [b \in Blocks |-> << >>]
    /\ head = 0
    /\ backtrace = 0
    /\ pc = "store"
    /\ mode = "Realtime"
    /\ poll_applied = << >>
    /\ replay_effect = << >>

NextStore ==
    \/ apply_event
    \/ store_tick

SpecStore == InitStore /\ [][NextStore]_vars

-----------------------------------------------------------------------------
(* SpecNav: calculate_all_nav on a store of two positions.  The first is any  *)
(* position of the bounded domain, the second an ordinary Moderate one; the   *)
(* price, the interest rate and the wall clock are drawn with them.           *)

NavAmounts == 1..MaxAmount
NavInterests == 0..MaxInterest \cup {U256_MAX}
NavMintPrices == {WAD, 2 * WAD}
NavPrices == {0, 1, WAD \div 2, WAD, 2 * WAD, 50 * WAD}
NavRates == {0, 300, 1000}
NavTimes == {0, MaxTime}

Position(user, token_id, amount, total_interest, leverage, mint_price) ==
    [ user |-> user, token_id |-> token_id, amount |-> amount, timestamp |-> 0,
      total_interest |-> total_interest, leverage |-> leverage,
      mint_price |-> mint_price ]

\* NavMonitor::calculate_all_nav runs on the store at the current price.
calculate_nav ==
    /\ pc = "nav"
    /\ \E scan \in { calculate_all_nav(get_system_params(W), current_price, now) } :
        /\ nav_results' = scan
        /\ pc' = IF scan.kind = "panic" THEN "dead" ELSE "nav_done"
    /\ params' = << system_params(W) >>
    /\ UNCHANGED << store_hist, current_price, liquidatable, read_params,
                    bark_attempts, iteration >>
    /\ UNCHANGED << chain, head, now, backtrace, positions, auctions,
                    last_synced_block, mode, processed_events, sync_cur, sync_end,
                    tasks, poll_idx, pending_resets, timers, reset_txs, calc_in,
                    calc_out, rt_delivered, poll_applied, replay_effect,
                    applied_blocks, sync_from, auction_removed, ev_count, crashes >>

InitNav ==
    /\ now \in NavTimes
    /\ \E r \in NavRates :
          params = << [DefaultParams EXCEPT !.annual_interest_rate = r] >>
    /\ \E a \in NavAmounts, i \in NavInterests, p0 \in NavMintPrices,
          l \in {"Conservative", "Moderate", "Aggressive"} :
          positions = Put(Put(<< >>, PosKey("U1", 1), Position("U1", 1, a, i, l, p0)),
                          PosKey("U1", 2), Position("U1", 2, 1, 0, "Moderate", WAD))
    /\ current_price \in NavPrices
    /\ nav_results = [kind |-> "ok", results |-> << >>, interests |-> << >>]
    /\ pc = "nav"
    /\ auctions = << >>
    /\ last_synced_block = None
    /\ processed_events = {}
    /\ sync_cur = 0
    /\ sync_end = 0
    /\ tasks = << >>
    /\ poll_idx = 1
    /\ pending_resets = << >>
    /\ timers = << >>
    /\ reset_txs = << >>
    /\ calc_in = << 0, 0, 0 >>
    /\ calc_out = 0
    /\ rt_delivered = << >>
    /\ applied_blocks = {}
    /\ sync_from = None
    /\ auction_removed = {}
    /\ ev_count = << >>
    /\ crashes = 0
    /\ prev_store = << >>
    /\ last_event = << >>
    /\ liquidatable = << >>
    /\ read_params = << >>
    /\ bark_attempts = << >>
    /\ iteration = 0
    /\ chain = [b \in Blocks |-> << >>]
    /\ head = 0
    /\ backtrace = 0
    /\ mode = "Realtime"
    /\ poll_applied = << >>
    /\ replay_effect = << >>

NextNav == calculate_nav

SpecNav == InitNav /\ [][NextNav]_vars

-----------------------------------------------------------------------------
(* liquidation.rs and SpecLiq: the liquidation loop on a store of two        *)
(* positions, with the oracle price of each iteration and the outcome of     *)
(* each bark submission chosen by the environment.                           *)

\* The filter of check_and_execute_liquidations, lines 89-94
is_liquidatable(result, liquidation_threshold) == result.net_nav < liquidation_threshold

\* A variant of the bark loop that gives up at the first failed submission.
after_bark_aborting(rest, ok) == IF ok THEN rest ELSE << >>

\* The bark loop after one execute_liquidation (lines 99-108): the failure is
\* logged and the loop goes on with the rest.
after_bark(rest, ok) == rest

LiqPrices == {1, 4, 6, WAD}
LiqInterests == {0, 2}
LiqPositions(token_id) ==
    { Position("U1", token_id, WAD, i, l, p0) :
        i \in LiqInterests, l \in {"Moderate", "Aggressive"}, p0 \in {0, WAD} }

\* The interval of run fires and check_and_execute_liquidations reads the price,
\* computes the NAVs and selects the positions to liquidate.  price = None is a
\* failed oracle call; an Err is logged by run and the loop waits for the next
\* tick; a panic ends the task.
check_and_execute_liquidations ==
    /\ pc = "liq_idle"
    /\ iteration < MaxIterations
    /\ iteration' = iteration + 1
    /\ \E price \in LiqPrices \cup {None} :
        /\ current_price' = price
        /\ IF price = None
           THEN UNCHANGED << params, nav_results, liquidatable, read_params, pc >>
           ELSE \E scan \in { calculate_all_nav(get_system_params(W), price, now) } :
                    /\ params' = << system_params(W) >>
                    /\ nav_results' = scan
                    /\ read_params' = IF scan.kind = "ok" THEN << system_params(W) >>
                                      ELSE read_params
                    /\ liquidatable' =
                          IF scan.kind = "ok"
                          THEN SelectSeq(scan.results,
                                   LAMBDA r : is_liquidatable(r,
                                       system_params(W).liquidation_threshold))
                          ELSE << >>
                    /\ pc' = CASE scan.kind = "ok" -> "liq_bark"
                               [] scan.kind = "panic" -> "dead"
                               [] OTHER -> "liq_idle"
    /\ UNCHANGED << store_hist, bark_attempts >>
    /\ UNCHANGED << chain, head, now, backtrace, positions, auctions,
                    last_synced_block, mode, processed_events, sync_cur, sync_end,
                    tasks, poll_idx, pending_resets, timers, reset_txs, calc_in,
                    calc_out, rt_delivered, poll_applied, replay_effect,
                    applied_blocks, sync_from, auction_removed, ev_count, crashes >>

\* execute_liquidation for the next position of the list: the bark transaction
\* is sent and confirmed (ok) or the call returns Err.
execute_liquidation ==
    /\ pc = "liq_bark"
    /\ liquidatable # << >>
    /\ \E ok \in BOOLEAN :
        /\ bark_attempts' = Append(bark_attempts,
                                   [ iteration |-> iteration,
                                     user |-> Head(liquidatable).user,
                                     token_id |-> Head(liquidatable).token_id,
                                     ok |-> ok ])
        /\ liquidatable' = after_bark(Tail(liquidatable), ok)
    /\ UNCHANGED << store_hist, current_price, nav_results, read_params, iteration >>
    /\ UNCHANGED << chain, head, now, backtrace, params, positions, auctions,
                    last_synced_block, pc, mode, processed_events, sync_cur, sync_end,
                    tasks, poll_idx, pending_resets, timers, reset_txs, calc_in,
                    calc_out, rt_delivered, poll_applied, replay_effect,
                    applied_blocks, sync_from, auction_removed, ev_count, crashes >>

\* The bark loop is over and check_and_execute_liquidations returns Ok.
liquidations_done ==
    /\ pc = "liq_bark"
    /\ liquidatable = << >>
    /\ pc' = "liq_idle"
    /\ UNCHANGED << store_hist, liq_vars >>
    /\ UNCHANGED << chain, head, now, backtrace, params, positions, auctions,
                    last_synced_block, mode, processed_events, sync_cur, sync_end,
                    tasks, poll_idx, pending_resets, timers, reset_txs, calc_in,
                    calc_out, rt_delivered, poll_applied, replay_effect,
                    applied_blocks, sync_from, auction_removed, ev_count, crashes >>

InitLiq ==
    /\ now = 0
    /\ params = << >>
    /\ \E p1 \in LiqPositions(1), p2 \in LiqPositions(2) :
          positions = Put(Put(<< >>, PosKey("U1", 1), p1), PosKey("U1", 2), p2)
    /\ current_price = None
    /\ nav_results = [kind |-> "ok", results |-> << >>, interests |-> << >>]
    /\ pc = "liq_idle"
    /\ auctions = << >>
    /\ last_synced_block = None
    /\ processed_events = {}
    /\ sync_cur = 0
    /\ sync_end = 0
    /\ tasks = << >>
    /\ poll_idx = 1
    /\ pending_resets = << >>
    /\ timers = << >>
    /\ reset_txs = << >>
    /\ calc_in = << 0, 0, 0 >>
    /\ calc_out = 0
    /\ rt_delivered = << >>
    /\ applied_blocks = {}
    /\ sync_from = None
    /\ auction_removed = {}
    /\ ev_count = << >>
    /\ crashes = 0
    /\ prev_store = << >>
    /\ last_event = << >>
    /\ liquidatable = << >>
    /\ read_params = << >>
    /\ bark_attempts = << >>
    /\ iteration = 0
    /\ chain = [b \in Blocks |-> << >>]
    /\ head = 0
    /\ backtrace = 0
    /\ mode = "Realtime"
    /\ poll_applied = << >>
    /\ replay_effect = << >>

NextLiq ==
    \/ check_and_execute_liquidations
    \/ execute_liquidation
    \/ liquidations_done

SpecLiq == InitLiq /\ [][NextLiq]_vars

-----------------------------------------------------------------------------
(* SpecParams: ParameterChanged events of the liquidation manager and of the  *)
(* auction manager, each in a block of its own, applied by the real-time      *)
(* dispatch, by a polling monitor or by the replay of the block.              *)

\* Events per behaviour.
MaxParamEvents == 2

LiquidationParameterNames == {"adjustmentThreshold", "liquidationThreshold", "penalty"}
AuctionParameterNames ==
    { "priceMultiplier", "resetTime", "minAuctionAmount", "priceDropThreshold",
      "percentageReward", "fixedReward" }
\* The names an event carries: the names of both contracts, circuitBreaker, a
\* name of neither contract and the empty name.
ParameterNames ==
    LiquidationParameterNames \cup AuctionParameterNames
        \cup {"circuitBreaker", "maxSlippage", ""}
ParameterValues == {7, 8}

ParameterLogs(b) ==
    { ParameterChangedLog(b, 0, address, name, value) :
        address \in {"liquidation_manager", "auction_manager"},
        name \in ParameterNames, value \in ParameterValues }

\* The world of the store before the event applied last.
PrevW ==
    [W EXCEPT !.params = prev_store.params, !.positions = prev_store.positions,
              !.auctions = prev_store.auctions]

\* The next block carries one ParameterChanged, which one of the three
\* transports applies.
apply_parameter_event ==
    /\ pc = "params"
    /\ head < MaxParamEvents
    /\ head' = head + 1
    /\ \E log \in ParameterLogs(head + 1) :
        \E w \in { apply_log(W, log, now, TRUE),
                   apply_log_static(W, log, now),
                   poll_apply(W, log.address, "ParameterChanged", log, now, TRUE) } :
            /\ params' = w.params
            /\ pc' = IF w.panicked \/ w.err THEN "dead" ELSE pc
            /\ prev_store' = Store
            /\ last_event' = << log >>
    /\ UNCHANGED liq_vars
    /\ UNCHANGED << chain, now, backtrace, positions, auctions, last_synced_block,
                    mode, processed_events, sync_cur, sync_end, tasks, poll_idx,
                    pending_resets, timers, reset_txs, calc_in, calc_out,
                    rt_delivered, poll_applied, replay_effect, applied_blocks,
                    sync_from, auction_removed, ev_count, crashes >>

InitParams ==
    /\ InitIdle
    /\ chain = [b \in Blocks |-> << >>]
    /\ head = 0
    /\ backtrace = 0
    /\ pc = "params"
    /\ mode = "Realtime"
    /\ poll_applied = << >>
    /\ replay_effect = << >>

NextParams == apply_parameter_event

SpecParams == InitParams /\ [][NextParams]_vars

-----------------------------------------------------------------------------
(* SpecConfig: the handler of LiquidationConfigInfo, one database call at a   *)
(* time, beside the liquidation task, which reads the params row on its own   *)
(* thread.  A call of the store can fail.                                      *)

\* The configurations the liquidation manager announces.
ConfigLogs(b) ==
    { LiquidationConfigInfoLog(b, 0, v, v, v) : v \in ParameterValues }

\* The three store calls of the handler in order (lines 1554-1556, 610-612).
config_update(w, k, log) ==
    CASE k = 1 -> update_adjustment_threshold(w, log.a)
      [] k = 2 -> update_liquidation_threshold(w, log.b)
      [] OTHER -> update_penalty(w, log.c)

\* The dispatch hands the LiquidationConfigInfo of the next block to the handler.
config_event ==
    /\ pc = "cfg_idle"
    /\ head < MaxParamEvents
    /\ head' = head + 1
    /\ \E log \in ConfigLogs(head + 1) : last_event' = << log >>
    /\ prev_store' = Store
    /\ pc' = "cfg_1"
    /\ UNCHANGED liq_vars
    /\ UNCHANGED << chain, now, backtrace, params, positions, auctions,
                    last_synced_block, mode, processed_events, sync_cur, sync_end,
                    tasks, poll_idx, pending_resets, timers, reset_txs, calc_in,
                    calc_out, rt_delivered, poll_applied, replay_effect,
                    applied_blocks, sync_from, auction_removed, ev_count, crashes >>

\* The handler makes its k-th store call; on an Err of the store the ? returns
\* and the dispatch logs the error.
config_write(k) ==
    /\ pc = CASE k = 1 -> "cfg_1" [] k = 2 -> "cfg_2" [] OTHER -> "cfg_3"
    /\ \E store_ok \in BOOLEAN :
        IF store_ok
        THEN /\ params' = config_update(W, k, last_event[1]).params
             /\ pc' = CASE k = 1 -> "cfg_2" [] k = 2 -> "cfg_3" [] OTHER -> "cfg_idle"
        ELSE /\ UNCHANGED params
             /\ pc' = "cfg_idle"
    /\ UNCHANGED << store_hist, liq_vars >>
    /\ UNCHANGED << chain, head, now, backtrace, positions, auctions,
                    last_synced_block, mode, processed_events, sync_cur, sync_end,
                    tasks, poll_idx, pending_resets, timers, reset_txs, calc_in,
                    calc_out, rt_delivered, poll_applied, replay_effect,
                    applied_blocks, sync_from, auction_removed, ev_count, crashes >>

\* check_and_execute_liquidations, line 84: the liquidation task reads the row.
liquidation_reads_params ==
    /\ pc \in {"cfg_idle", "cfg_1", "cfg_2", "cfg_3"}
    /\ read_params' = << system_params(W) >>
    /\ params' = get_system_params(W).params
    /\ UNCHANGED << store_hist, current_price, nav_results, liquidatable, bark_attempts,
                    iteration >>
    /\ UNCHANGED << chain, head, now, backtrace, positions, auctions,
                    last_synced_block, pc, mode, processed_events, sync_cur, sync_end,
                    tasks, poll_idx, pending_resets, timers, reset_txs, calc_in,
                    calc_out, rt_delivered, poll_applied, replay_effect,
                    applied_blocks, sync_from, auction_removed, ev_count, crashes >>

InitConfig ==
    /\ InitIdle
    /\ chain = [b \in Blocks |-> << >>]
    /\ head = 0
    /\ backtrace = 0
    /\ pc = "cfg_idle"
    /\ mode = "Realtime"
    /\ poll_applied = << >>
    /\ replay_effect = << >>

NextConfig ==
    \/ config_event
    \/ \E k \in 1..3 : config_write(k)
    \/ liquidation_reads_params

SpecConfig == InitConfig /\ [][NextConfig]_vars

-----------------------------------------------------------------------------
(* SpecRmw: a replay batch of two blocks, each holding one ParameterChanged.  *)
(* The two per-block tasks run on the threads of the runtime; a task's        *)
(* Database::update_* is a get of the params row followed by a put of the     *)
(* whole row.                                                                  *)

\* The ParameterChanged a block of the batch holds.
RmwLogs(b) ==
    { ParameterChangedLog(b, 0, "liquidation_manager", name, value) :
        name \in {"adjustmentThreshold", "penalty"}, value \in ParameterValues }
    \cup { ParameterChangedLog(b, 0, "auction_manager", "resetTime", value) :
             value \in ParameterValues }

\* Database::update_*, first half: get_system_params in the task of block b (a
\* missing row is written with the defaults).
update_param_get(b) ==
    /\ pc = "sync"
    /\ b \in DOMAIN tasks
    /\ tasks[b].st = "logs"
    /\ tasks' = [tasks EXCEPT ![b] =
                    [st |-> "read", idx |-> @.idx, row |-> system_params(W)]]
    /\ params' = get_system_params(W).params
    /\ UNCHANGED << store_hist, liq_vars >>
    /\ UNCHANGED << chain, head, now, backtrace, positions, auctions,
                    last_synced_block, pc, mode, processed_events, sync_cur, sync_end,
                    poll_idx, pending_resets, timers, reset_txs, calc_in, calc_out,
                    rt_delivered, poll_applied, replay_effect, applied_blocks,
                    sync_from, auction_removed, ev_count, crashes >>

\* Database::update_*, second half: set_system_params of the row read, with the
\* field of the event replaced; the task of block b then returns.
update_param_put(b) ==
    /\ pc = "sync"
    /\ b \in DOMAIN tasks
    /\ tasks[b].st = "read"
    /\ params' = apply_log_static([W EXCEPT !.params = << tasks[b].row >>],
                                  LogsOf(b)[tasks[b].idx], now).params
    /\ tasks' = [tasks EXCEPT ![b] = [st |-> "done", idx |-> @.idx]]
    /\ applied_blocks' = applied_blocks \cup {b}
    /\ UNCHANGED << store_hist, liq_vars >>
    /\ UNCHANGED << chain, head, now, backtrace, positions, auctions,
                    last_synced_block, pc, mode, processed_events, sync_cur, sync_end,
                    poll_idx, pending_resets, timers, reset_txs, calc_in, calc_out,
                    rt_delivered, poll_applied, replay_effect, sync_from,
                    auction_removed, ev_count, crashes >>

\* A cold start one block behind the head: the batch of the replay is blocks 1
\* and 2.
InitRmw ==
    /\ InitIdle
    /\ \E l1 \in RmwLogs(1), l2 \in RmwLogs(2) :
          chain = [b \in Blocks |->
                      CASE b = 1 -> << l1 >> [] b = 2 -> << l2 >> [] OTHER -> << >>]
    /\ head = 2
    /\ backtrace = 1
    /\ pc = "init"
    /\ mode = "Realtime"
    /\ poll_applied = << >>
    /\ replay_effect = << >>

NextRmw ==
    \/ perform_initial_sync
    \/ \E b \in Blocks : sync_single_block_fetch(b)
    \/ \E b \in Blocks : update_param_get(b)
    \/ \E b \in Blocks : update_param_put(b)
    \/ sync_block_range_join

SpecRmw == InitRmw /\ [][NextRmw]_vars

-----------------------------------------------------------------------------
(* SpecLiqParams: the replay batch of SpecRmw beside the liquidation task,    *)
(* whose get_system_params is a get of the params row followed, when the row  *)
(* is missing, by a put of the defaults.                                       *)

\* Option::None of db.get for the params row.
NoRow == [missing |-> TRUE]

\* get_system_params of the liquidation task, line 130: db.get of the row.
liquidation_get ==
    /\ read_params = << >>
    /\ read_params' = IF params = << >> THEN << NoRow >> ELSE params
    /\ UNCHANGED << store_hist, current_price, nav_results, liquidatable, bark_attempts,
                    iteration >>
    /\ UNCHANGED << chain, head, now, backtrace, params, positions, auctions,
                    last_synced_block, pc, mode, processed_events, sync_cur, sync_end,
                    tasks, poll_idx, pending_resets, timers, reset_txs, calc_in,
                    calc_out, rt_delivered, poll_applied, replay_effect,
                    applied_blocks, sync_from, auction_removed, ev_count, crashes >>

\* get_system_params of the liquidation task, lines 135-140: the get returned
\* None, the defaults are put and returned.
liquidation_put_default ==
    /\ read_params = << NoRow >>
    /\ params' = set_system_params(W, DefaultParams).params
    /\ read_params' = << DefaultParams >>
    /\ UNCHANGED << store_hist, current_price, nav_results, liquidatable, bark_attempts,
                    iteration >>
    /\ UNCHANGED << chain, head, now, backtrace, positions, auctions,
                    last_synced_block, pc, mode, processed_events, sync_cur, sync_end,
                    tasks, poll_idx, pending_resets, timers, reset_txs, calc_in,
                    calc_out, rt_delivered, poll_applied, replay_effect,
                    applied_blocks, sync_from, auction_removed, ev_count, crashes >>

NextLiqParams ==
    \/ NextRmw
    \/ liquidation_get
    \/ liquidation_put_default

SpecLiqParams == InitRmw /\ [][NextLiqParams]_vars

-----------------------------------------------------------------------------
(* SpecOrder: one historical replay of a chain whose block 1 creates a        *)
(* position and whose block 2 changes it, from a cold start.                  *)

\* The chains replayed: a Mint of la units in block 1 (with the leverage byte 3
\* the applier returns Err) and, in block 2, an InterestCollected (with an
\* interest of 1 the applier panics on the minted position) or a
\* PositionIncreased for the position.
OrderChains ==
    { [b \in Blocks |->
          CASE b = 1 -> << MintLog(1, 0, "U1", 1, lev, WAD, la) >>
            [] b = 2 -> << l2 >>
            [] OTHER -> << >>] :
        lev \in {1, 3}, la \in 2..3,
        l2 \in { InterestCollectedLog(2, 0, "U1", 1, d, i) : d \in 1..2, i \in 0..1 }
               \cup { PositionIncreasedLog(2, 0, "U1", 1, 5, i) : i \in 0..1 } }

InitOrder ==
    /\ InitIdle
    /\ chain \in OrderChains
    /\ head = 2
    /\ backtrace \in {1, 2}
    /\ pc = "init"
    /\ mode = "Realtime"
    /\ poll_applied = [e \in EventIds |-> 0]
    /\ replay_effect = [e \in EventIds |-> 0]

NextOrder ==
    \/ perform_initial_sync
    \/ \E b \in Blocks : sync_single_block_fetch(b)
    \/ \E b \in Blocks : sync_single_block_apply(b)
    \/ sync_block_range_join

SpecOrder == InitOrder /\ [][NextOrder]_vars

-----------------------------------------------------------------------------
(* SpecCache: the de-duplication set.  The monitor starts in real-time mode    *)
(* on a chain whose blocks carry several InterestRateChanged logs, takes the  *)
(* blocks as they are announced and, after a subscription error, polls.       *)

\* The chains of the cache runs: blocks 1 and 2 carry MaxBlockLogs - 2 or
\* MaxBlockLogs logs each.
CacheChains ==
    { [b \in Blocks |->
          IF b = 0 THEN << >>
          ELSE [i \in 1..n[b] |-> InterestRateChangedLog(b, i - 1, 0, 1)]] :
        n \in [Blocks \ {0} -> {MaxBlockLogs - 2, MaxBlockLogs}] }

\* One second of wall-clock time passes while the monitor runs.
second_passes ==
    /\ pc \in {"realtime", "polling"}
    /\ now < MaxTime
    /\ now' = now + 1
    /\ UNCHANGED << store_hist, liq_vars >>
    /\ UNCHANGED << chain, head, backtrace, params, positions, auctions,
                    last_synced_block, pc, mode, processed_events, sync_cur, sync_end,
                    tasks, poll_idx, pending_resets, timers, reset_txs, calc_in,
                    calc_out, rt_delivered, poll_applied, replay_effect,
                    applied_blocks, sync_from, auction_removed, ev_count, crashes >>

InitCache ==
    /\ InitIdle
    /\ chain \in CacheChains
    /\ head = 0
    /\ backtrace = 0
    /\ pc = "init"
    /\ mode = "Realtime"
    /\ poll_applied = [e \in EventIds |-> 0]
    /\ replay_effect = [e \in EventIds |-> 0]

NextCache ==
    \/ perform_initial_sync
    \/ \E b \in Blocks : process_block_events(b)
    \/ subscription_error
    \/ poll_monitor
    \/ new_block
    \/ second_passes

SpecCache == InitCache /\ [][NextCache]_vars

-----------------------------------------------------------------------------
(* SpecAuction: the ingestion pipeline over a chain with auctions.  Block 1    *)
(* carries the AuctionStarted of auction 7 and block 2 may carry that of      *)
(* auction 8; the keeper replays, listens or polls, and may be restarted.     *)

AuctionChains ==
    { [b \in Blocks |->
          CASE b = 1 -> << AuctionStartedLog(1, 0, 7, p) >>
            [] b = 2 -> l2
            [] OTHER -> << >>] :
        p \in StartingPrices,
        l2 \in { << >>, << AuctionStartedLog(2, 0, 8, WAD) >> } }

InitAuction ==
    /\ InitIdle
    /\ chain \in AuctionChains
    /\ head \in {0, 1}
    /\ backtrace \in {0, 2}
    /\ pc = "init"
    /\ mode \in {"Realtime", "Polling"}
    /\ poll_applied = [e \in EventIds |-> 0]
    /\ replay_effect = [e \in EventIds |-> 0]

NextAuction ==
    \/ perform_initial_sync
    \/ \E b \in Blocks : sync_single_block_fetch(b)
    \/ \E b \in Blocks : sync_single_block_apply(b)
    \/ sync_block_range_join
    \/ \E b \in Blocks : process_block_events(b)
    \/ subscription_error
    \/ poll_monitor
    \/ new_block
    \/ crash_restart

SpecAuction == InitAuction /\ [][NextAuction]_vars

-----------------------------------------------------------------------------
(* SpecShort: blocks of two logs of one event, the first cut short in its     *)
(* topics or its data, applied by each of the three transports.               *)

\* The topics and data bytes the applier of an event asks for before it reads.
MinTopics(sig) ==
    CASE sig = SigInterestRateChanged -> 3
      [] sig = SigPositionIncreased -> 3
      [] sig = SigInterestCollected -> 3
      [] sig = SigParameterChanged -> 2
      [] sig = SigLiquidationConfigInfo -> 1
      [] sig = SigNetValueAdjusted -> 4
      [] sig = SigAuctionStarted -> 4
      [] sig = SigAuctionReset -> 4
      [] sig = SigAuctionRemoved -> 2
      [] OTHER -> 2
MinData(sig) ==
    CASE sig = SigInterestRateChanged -> 0
      [] sig = SigPositionIncreased -> 96
      [] sig = SigInterestCollected -> 64
      [] sig = SigParameterChanged -> 32
      [] sig = SigLiquidationConfigInfo -> 128
      [] sig = SigNetValueAdjusted -> 97
      [] sig = SigAuctionStarted -> 128
      [] sig = SigAuctionReset -> 32
      [] sig = SigAuctionRemoved -> 0
      [] OTHER -> 161

\* The well-formed logs of block b at log index i, with the values v.
FullLogs(b, i, v) ==
    { InterestRateChangedLog(b, i, 0, v),
      PositionIncreasedLog(b, i, "U1", 1, v, 0),
      InterestCollectedLog(b, i, "U1", 1, 1, 0),
      ParameterChangedLog(b, i, "liquidation_manager", "penalty", v),
      ParameterChangedLog(b, i, "auction_manager", "resetTime", v),
      LiquidationConfigInfoLog(b, i, v, v, v),
      NetValueAdjustedLog(b, i, "U1", 2, 1, 2, v, v),
      AuctionStartedLog(b, i, 7, v),
      AuctionResetLog(b, i, 7, v),
      AuctionRemovedLog(b, i, 7),
      MintLog(b, i, "U1", 1, 1, v, v) }

\* The log with fewer topics than its applier asks for, or with less data.
Truncations(log) ==
    { [log EXCEPT !.topics = k] :
          k \in {0, MinTopics(log.sig) - 1} }
    \cup { [log EXCEPT !.datalen = d] :
               d \in {0, MinData(log.sig) - 1} \cap 0..(MinData(log.sig) - 1) }

\* A short log followed by a well-formed log of the same event.
ShortBlocks(b) ==
    UNION { { << t, g >> : t \in Truncations(
                                CHOOSE l \in FullLogs(b, 0, 8) :
                                    l.sig = g.sig /\ l.address = g.address) } :
              g \in FullLogs(b, 1, 7) }

\* sync_single_block, lines 383-420: the loop over the logs of the block.
RECURSIVE replay_block_logs(_, _, _, _)
replay_block_logs(w, logs, i, t) ==
    IF i > Len(logs) \/ w.panicked THEN w
    ELSE replay_block_logs(apply_log_static(w, logs[i], t), logs, i + 1, t)

\* The event names under which a polling monitor gets the logs of this event.
PollNames(log) ==
    { PollMonitors[m].events[j].event_name :
        m \in { n \in 1..Len(PollMonitors) : PollMonitors[n].contract = log.address },
        j \in { k \in 1..4 : \E n \in 1..Len(PollMonitors) :
                    /\ PollMonitors[n].contract = log.address
                    /\ k <= Len(PollMonitors[n].events)
                    /\ PollMonitors[n].events[k].sig = log.sig } }

\* The world after a transport has gone through the logs of a block.
BlockOutcomes(w, logs, t) ==
    { process_block_logs([w |-> w, pe |-> {}, count |-> 0], logs, 1, t, TRUE).w,
      replay_block_logs(w, logs, 1, t) }
    \cup { poll_logs([w |-> w,
                      applied |-> [e \in {EventIdOf(logs[i]) : i \in 1..Len(logs)} |-> 0]],
                     logs[1].address, name, logs, 1, t, TRUE).w :
             name \in PollNames(logs[Len(logs)]) }

\* The next block carries a short log and a well-formed one; a transport
\* goes through it.
apply_short_block ==
    /\ pc = "short"
    /\ head < MaxParamEvents
    /\ head' = head + 1
    /\ \E logs \in ShortBlocks(head + 1) :
        \E w \in BlockOutcomes(W, logs, now) :
            /\ SetW(w)
            /\ pc' = IF w.panicked \/ w.err THEN "dead" ELSE pc
            /\ prev_store' = Store
            /\ last_event' = logs
    /\ UNCHANGED liq_vars
    /\ UNCHANGED << chain, now, backtrace, last_synced_block, mode, processed_events,
                    sync_cur, sync_end, tasks, poll_idx, calc_in, calc_out,
                    rt_delivered, poll_applied, replay_effect, applied_blocks,
                    sync_from, crashes >>

InitShort ==
    /\ InitIdle
    /\ chain = [b \in Blocks |-> << >>]
    /\ head = 0
    /\ backtrace = 0
    /\ pc = "short"
    /\ mode = "Realtime"
    /\ poll_applied = << >>
    /\ replay_effect = << >>

NextShort == apply_short_block

SpecShort == InitShort /\ [][NextShort]_vars

-----------------------------------------------------------------------------
(* SpecFail: blocks of two logs, the first with a leverage code that           *)
(* LeverageType::from_u8 rejects, applied by each of the three transports.     *)

\* monitor_*_events over the logs an eth_getLogs of each filter returns, every
\* call succeeding: the events of monitor m from the j-th on.
RECURSIVE monitor_events_of(_, _, _, _, _)
monitor_events_of(acc, m, j, logs, t) ==
    IF j > Len(m.events) \/ acc.w.panicked \/ acc.w.err THEN acc
    ELSE monitor_events_of(
             poll_logs(acc, m.contract, m.events[j].event_name,
                       filter_logs(logs, m.contract, m.events[j].sig, 1), 1, t, TRUE),
             m, j + 1, logs, t)

\* monitor_all_events over these logs: the monitors from the i-th on.
RECURSIVE poll_cycle_of(_, _, _, _)
poll_cycle_of(acc, logs, i, t) ==
    IF i > Len(PollMonitors) \/ acc.w.panicked \/ acc.w.err THEN acc
    ELSE poll_cycle_of(monitor_events_of(acc, PollMonitors[i], 1, logs, t),
                       logs, i + 1, t)

\* The world after the real-time applier, the replay or a polling cycle has
\* gone through the logs.
TransportOutcomes(w, logs, t) ==
    { process_block_logs([w |-> w, pe |-> {}, count |-> 0], logs, 1, t, TRUE).w,
      replay_block_logs(w, logs, 1, t),
      poll_cycle_of([w |-> w,
                     applied |-> [e \in {EventIdOf(logs[i]) : i \in 1..Len(logs)} |-> 0]],
                    logs, 1, t).w }

\* Leverage codes outside the enum.
InvalidLeverageCodes == {3, 4}

\* A log whose application returns Err, followed by a well-formed log.
FailBlocks(b) ==
    { << f, g >> :
        f \in { NetValueAdjustedLog(b, 0, "U1", 2, 1, c, 8, 2) : c \in InvalidLeverageCodes }
              \cup { MintLog(b, 0, "U1", 1, c, 8, 8) : c \in InvalidLeverageCodes },
        g \in FullLogs(b, 1, 7) }

\* The next block carries a log that cannot be applied and a well-formed one;
\* a transport goes through it.  The Err of a cycle is logged by
\* run_polling_mode, the Err of a log by the other two.
apply_failing_block ==
    /\ pc = "fail"
    /\ head < MaxParamEvents
    /\ head' = head + 1
    /\ \E logs \in FailBlocks(head + 1) :
        \E w \in TransportOutcomes(W, logs, now) :
            /\ SetW(w)
            /\ pc' = IF w.panicked THEN "dead" ELSE pc
            /\ prev_store' = Store
            /\ last_event' = logs
    /\ UNCHANGED liq_vars
    /\ UNCHANGED << chain, now, backtrace, last_synced_block, mode, processed_events,
                    sync_cur, sync_end, tasks, poll_idx, calc_in, calc_out,
                    rt_delivered, poll_applied, replay_effect, applied_blocks,
                    sync_from, crashes >>

InitFail ==
    /\ InitIdle
    /\ chain = [b \in Blocks |-> << >>]
    /\ head = 0
    /\ backtrace = 0
    /\ pc = "fail"
    /\ mode = "Realtime"
    /\ poll_applied = << >>
    /\ replay_effect = << >>

NextFail == apply_failing_block

SpecFail == InitFail /\ [][NextFail]_vars

-----------------------------------------------------------------------------
(* SpecRead: PositionIncreased applied with a store read that may fail.        *)

\* The outcomes of Database::get_user_position: the row or its absence, or the
\* Err of the RocksDB get or of the deserialisation.
ReadOutcomes == {"Ok", "Err"}

\* A variant of the PositionIncreased arm that never takes over the stored
\* leverage and mint price.
position_increased_fresh(w, log, t, read) ==
    store_user_position(w,
        [ user |-> log.user, token_id |-> log.token_id,
          amount |-> log.a, timestamp |-> t,
          total_interest |-> log.b, leverage |-> "Conservative",
          mint_price |-> 0 ])

\* process_interest_event, PositionIncreased arm, lines 1428-1456: the match on
\* get_user_position takes the first arm on Ok(Some(existing)) and the second
\* on everything else, then stores the record.
position_increased(w, log, t, read) ==
    IF read = "Ok" /\ has_user_position(w, log.user, log.token_id)
    THEN store_user_position(w,
            increased_position(get_user_position(w, log.user, log.token_id),
                               log.a, log.b, t))
    ELSE store_user_position(w,
            [ user |-> log.user, token_id |-> log.token_id,
              amount |-> log.a, timestamp |-> t,
              total_interest |-> log.b, leverage |-> "Conservative",
              mint_price |-> 0 ])

\* A Mint of the position reaches the store.
read_apply_mint ==
    /\ pc = "read"
    /\ head < MaxParamEvents
    /\ head' = head + 1
    /\ \E lev \in {1, 2}, price \in 7..8, l_amount \in 2..3 :
        LET log == MintLog(head + 1, 0, "U1", 1, lev, price, l_amount)
            w == process_custodian_event(W, "Mint", log, now)
        IN  /\ SetW(w)
            /\ pc' = IF w.err \/ w.panicked THEN "dead" ELSE pc
            /\ prev_store' = Store
            /\ last_event' = << log, [read |-> "Ok"] >>
    /\ UNCHANGED liq_vars
    /\ UNCHANGED << chain, now, backtrace, last_synced_block, mode, processed_events,
                    sync_cur, sync_end, tasks, poll_idx, calc_in, calc_out,
                    rt_delivered, poll_applied, replay_effect, applied_blocks,
                    sync_from, crashes >>

\* A PositionIncreased of the position is applied; the read of the stored
\* record succeeds or fails.
read_apply_position_increased ==
    /\ pc = "read"
    /\ head < MaxParamEvents
    /\ head' = head + 1
    /\ \E total_amount \in 3..5, total_interest \in 0..1, read \in ReadOutcomes :
        LET log == PositionIncreasedLog(head + 1, 0, "U1", 1, total_amount, total_interest)
            w == position_increased(W, log, now, read)
        IN  /\ SetW(w)
            /\ pc' = IF w.err \/ w.panicked THEN "dead" ELSE pc
            /\ prev_store' = Store
            /\ last_event' = << log, [read |-> read] >>
    /\ UNCHANGED liq_vars
    /\ UNCHANGED << chain, now, backtrace, last_synced_block, mode, processed_events,
                    sync_cur, sync_end, tasks, poll_idx, calc_in, calc_out,
                    rt_delivered, poll_applied, replay_effect, applied_blocks,
                    sync_from, crashes >>

InitRead ==
    /\ InitIdle
    /\ chain = [b \in Blocks |-> << >>]
    /\ head = 0
    /\ backtrace = 0
    /\ pc = "read"
    /\ mode = "Realtime"
    /\ poll_applied = << >>
    /\ replay_effect = << >>

NextRead == read_apply_mint \/ read_apply_position_increased

SpecRead == InitRead /\ [][NextRead]_vars

-----------------------------------------------------------------------------
(* SpecCleanup: cleanup_processed_events_cache on sets of every size and       *)
(* labelling.                                                                   *)

\* The blocks of the ids of the set: one below, one at and one above the block
\* of the priority to keep.
CacheBlocks == (PRIORITY_BLOCK - 1)..(PRIORITY_BLOCK + 1)

\* The sets of EventIds the real-time applier can have inserted: the ids of the
\* first n[b] logs of each block b.
CacheSets ==
    { UNION { { [block_number |-> b, transaction_index |-> 0, log_index |-> i - 1] :
                  i \in 1..n[b] } : b \in CacheBlocks } :
        n \in [CacheBlocks -> 0..MaxBlockLogs] }

\* The first tick of run_polling_mode: cleanup_processed_events_cache returns
\* at once on a set of at most SOFT_CACHE_SIZE ids and cleans a larger one.
cleanup_tick ==
    /\ pc = "cleanup"
    /\ processed_events' \in cleanup_results(processed_events, now)
    /\ pc' = IF Cardinality(processed_events) <= SOFT_CACHE_SIZE
             THEN "skipped" ELSE "cleaned"
    /\ UNCHANGED << store_hist, liq_vars >>
    /\ UNCHANGED << chain, head, now, backtrace, params, positions, auctions,
                    last_synced_block, mode, sync_cur, sync_end, tasks, poll_idx,
                    pending_resets, timers, reset_txs, calc_in, calc_out,
                    rt_delivered, poll_applied, replay_effect, applied_blocks,
                    sync_from, auction_removed, ev_count, crashes >>

InitCleanup ==
    /\ now \in 0..(MaxTime + 1)
    /\ params = << >>
    /\ positions = << >>
    /\ auctions = << >>
    /\ last_synced_block = None
    /\ processed_events \in CacheSets
    /\ sync_cur = 0
    /\ sync_end = 0
    /\ tasks = << >>
    /\ poll_idx = 1
    /\ pending_resets = << >>
    /\ timers = << >>
    /\ reset_txs = << >>
    /\ calc_in = << 0, 0, 0 >>
    /\ calc_out = 0
    /\ rt_delivered = << >>
    /\ applied_blocks = {}
    /\ sync_from = None
    /\ auction_removed = {}
    /\ ev_count = << >>
    /\ crashes = 0
    /\ prev_store = << >>
    /\ last_event = << >>
    /\ current_price = 0
    /\ nav_results = << >>
    /\ liquidatable = << >>
    /\ read_params = << >>
    /\ bark_attempts = << >>
    /\ iteration = 0
    /\ chain = [b \in Blocks |-> << >>]
    /\ head = 0
    /\ backtrace = 0
    /\ pc = "cleanup"
    /\ mode = "Polling"
    /\ poll_applied = << >>
    /\ replay_effect = << >>

NextCleanup == cleanup_tick

SpecCleanup == InitCleanup /\ [][NextCleanup]_vars

-----------------------------------------------------------------------------
(* SpecDedup: blocks with a log that cannot be applied, announced more than    *)
(* once in real-time mode.                                                      *)

\* Block 1 mints the position, with a valid or an invalid leverage code; block
\* 2 collects interest from it and adjusts it, with a valid or an invalid code.
DedupChains ==
    { [b \in Blocks |->
          CASE b = 1 -> << MintLog(1, 0, "U1", 1, c1, WAD, 3) >>
            [] b = 2 -> << InterestCollectedLog(2, 0, "U1", 1, 1, 0),
                           NetValueAdjustedLog(2, 1, "U1", 2, 1, c2, WAD, 1) >>
            [] OTHER -> << >>] :
        c1 \in {1} \cup InvalidLeverageCodes, c2 \in {2} \cup InvalidLeverageCodes }

InitDedup ==
    /\ InitIdle
    /\ chain \in DedupChains
    /\ head = 0
    /\ backtrace = 0
    /\ pc = "init"
    /\ mode = "Realtime"
    /\ poll_applied = [e \in EventIds |-> 0]
    /\ replay_effect = [e \in EventIds |-> 0]

NextDedup ==
    \/ perform_initial_sync
    \/ \E b \in Blocks : process_block_events(b)
    \/ subscription_error
    \/ poll_monitor
    \/ new_block
    \/ second_passes

SpecDedup == InitDedup /\ [][NextDedup]_vars

-----------------------------------------------------------------------------
(* Properties *)

ThePosition == PosKey("U1", 1)
EventIdAt(b, i) == [block_number |-> b, transaction_index |-> 0, log_index |-> i]

\* C1: in real-time mode, a block that process_block_events has already processed
\* in this run and that is delivered again (every log with the EventId it had)
\* leaves params, positions and auctions as they are: the duplicated
\* InterestCollected does not decrement the position a second time.
C1_DuplicateDeliveryIsNoOp ==
    [][\A b \in Blocks :
          (rt_delivered[b] >= 1 /\ process_block_events(b))
              => UNCHANGED << params, positions, auctions >>]_vars

\* C1 happens: the block of the InterestCollected was delivered twice in real-time
\* mode, with no replay or polling of it, and the position was decremented once.
C1_Witness ==
    /\ pc = "realtime"
    /\ rt_delivered[1] = 1
    /\ rt_delivered[2] = 2
    /\ crashes = 0
    /\ replay_effect[EventIdAt(2, 0)] = 0
    /\ poll_applied[EventIdAt(2, 0)] = 0
    /\ ThePosition \in DOMAIN positions
    /\ positions[ThePosition].amount = 2

\* C2: across the polling cycles that return the same log, the log changes the
\* store at most once.
C2_PollingAppliesAtMostOnce ==
    \A e \in DOMAIN poll_applied : poll_applied[e] <= 1

\* C7: no step stores a last_synced_block below the one stored before.
C7_CursorNeverDecreases ==
    [][last_synced_block' >= last_synced_block]_vars

\* C8: every block of the synced range up to last_synced_block has had its logs
\* fetched and all of them applied.
C8_CursorCoversAppliedBlocks ==
    (sync_from # None /\ last_synced_block # None) =>
        \A b \in Blocks :
            (sync_from <= b /\ b <= last_synced_block) => b \in applied_blocks

\* C9: over a replay that a crash interrupts and a restart repeats, no log
\* changes the store more than once.
C9_ReplayTakesEffectAtMostOnce ==
    \A e \in DOMAIN replay_effect : replay_effect[e] <= 1

\* C10: when process_block_events has processed block N, and when
\* sync_block_range has joined the batch that holds block N, the
\* last_synced_block stored by that step is at least N.
C10_CursorAtLeastProcessedBlock ==
    [][ /\ \A b \in Blocks :
              (process_block_events(b) /\ pc' = "realtime") => last_synced_block' >= b
        /\ sync_block_range_join =>
              \A b \in DOMAIN tasks : last_synced_block' >= b ]_vars

\* C10 happens: blocks 0 and 1 were replayed and block 2 was processed in
\* real-time mode, and the cursor is at 2.
C10_Witness ==
    /\ pc = "realtime"
    /\ sync_from = 0
    /\ {0, 1} \subseteq applied_blocks
    /\ rt_delivered[2] = 1
    /\ last_synced_block = 2

-----------------------------------------------------------------------------
(* Properties of the reset scheduler (SpecReset) *)

TxsOf(auction_id) ==
    { k \in DOMAIN reset_txs : reset_txs[k].auction_id = auction_id }
TxsOfTimer(i) ==
    { k \in DOMAIN reset_txs : reset_txs[k].via = "timer" /\ reset_txs[k].timer = i }

\* C3: a reset task that wakes when the AuctionRemoved of its auction has been
\* applied (and no AuctionStarted for the id since) ends without calling
\* execute_auction_reset: it never submits resetAuction, whatever the order of
\* the handler and the task.
C3_RemovedAuctionIsNeverReset ==
    \A i \in DOMAIN timers :
        timers[i].fired_removed =>
            /\ timers[i].pc = "done"
            /\ TxsOfTimer(i) = {}

\* C3 happens: a task scheduled with a delay woke after the AuctionRemoved of its
\* auction and ended.
C3_Witness ==
    \E i \in DOMAIN timers :
        /\ timers[i].fired_removed
        /\ timers[i].pc = "done"
        /\ timers[i].reset_time > timers[i].spawned_at
        /\ timers[i].auction_id \notin DOMAIN auctions

\* C4: an auction id has at most one reset task waiting at any time, and a task
\* that a later schedule_auction_reset for the same id replaced submits nothing
\* after it was replaced.
C4_OnlyNewestTimerSubmits ==
    /\ \A i, j \in DOMAIN timers :
          (i < j /\ timers[i].auction_id = timers[j].auction_id)
              => timers[i].pc = "done"
    /\ \A k \in DOMAIN reset_txs :
          reset_txs[k].via = "timer" =>
              ~ \E j \in DOMAIN timers :
                    /\ j > reset_txs[k].timer
                    /\ timers[j].auction_id = reset_txs[k].auction_id
                    /\ timers[j].spawned_at < reset_txs[k].at

-----------------------------------------------------------------------------
(* Properties of calculate_reset_duration (SpecCalc) *)

CalcS == calc_in[1]
CalcTheta == calc_in[2]
CalcT == calc_in[3]

-----------------------------------------------------------------------------
(* Properties of the event appliers (SpecStore) *)

\* The key of the position the events of StoreLogs are about, the event applied
\* last and the record of the key before it.
Key1 == PosKey("U1", 1)
LastLog == last_event[1]
LastIs(sigs) == last_event # << >> /\ LastLog.sig \in sigs
HadPosition == Key1 \in DOMAIN prev_store.positions
HasPosition == Key1 \in DOMAIN positions
OldPosition == prev_store.positions[Key1]
NewPosition == positions[Key1]

\* C11: every position record of the store has amount > 0, whatever
\* PositionIncreased, InterestCollected, Mint and NetValueAdjusted events were
\* applied, events carrying an amount of 0 included.
C11_PositionAmountsArePositive ==
    \A k \in DOMAIN positions : positions[k].amount > 0

\* C12: after InterestCollected(user, tokenId, deduct, interest) on a stored
\* position, the record is absent when deduct equals the stored amount, and
\* when deduct is smaller it remains with amount = old amount - deduct and
\* total_interest = old total_interest - interest.
C12_InterestCollectedDeletesOrDeducts ==
    (LastIs({SigInterestCollected}) /\ HadPosition) =>
        /\ LastLog.a = OldPosition.amount => ~HasPosition
        /\ LastLog.a < OldPosition.amount =>
              /\ HasPosition
              /\ NewPosition.amount = OldPosition.amount - LastLog.a
              /\ NewPosition.total_interest = OldPosition.total_interest - LastLog.b

\* C17: the total_interest of a position never decreases by an event other than
\* InterestCollected, and an InterestCollected decreases it by exactly the
\* interest the event carries.
C17_TotalInterestMonotonicBetweenCollections ==
    (last_event # << >> /\ HadPosition /\ HasPosition) =>
        IF LastLog.sig = SigInterestCollected
        THEN NewPosition.total_interest = OldPosition.total_interest - LastLog.b
        ELSE NewPosition.total_interest >= OldPosition.total_interest

\* C18: PositionIncreased(user, tokenId, totalAmount, totalInterest) sets amount
\* and total_interest to the carried totals; on an existing record it leaves
\* leverage and mint_price as they were, and without a record it creates one
\* with leverage Conservative and mint_price 0.
C18_PositionIncreasedKeepsLeverageAndMintPrice ==
    LastIs({SigPositionIncreased}) =>
        /\ HasPosition
        /\ NewPosition.amount = LastLog.a
        /\ NewPosition.total_interest = LastLog.b
        /\ IF HadPosition
           THEN /\ NewPosition.leverage = OldPosition.leverage
                /\ NewPosition.mint_price = OldPosition.mint_price
           ELSE /\ NewPosition.leverage = "Conservative"
                /\ NewPosition.mint_price = 0

\* C18 happens: a PositionIncreased changed the amount of a record that a Mint had
\* made Moderate with mint price WAD.
C18_Witness ==
    /\ LastIs({SigPositionIncreased})
    /\ HadPosition
    /\ OldPosition.leverage = "Moderate"
    /\ OldPosition.mint_price = WAD
    /\ OldPosition.amount # LastLog.a
    /\ NewPosition.leverage = "Moderate"

\* C19: a Mint (key (user, tokenId)) or a NetValueAdjusted (key (user,
\* toTokenId)) with a leverage code of the enum changes only leverage and
\* mint_price of an existing record, leaving amount, total_interest and
\* timestamp, and without a record creates one with the carried amount and
\* total_interest 0.  No other key is written.
C19_MintAndAdjustOverwriteLeverageAndPriceOnly ==
    (LastIs({SigMint, SigNetValueAdjusted}) /\ LastLog.leverage_value \in LeverageCodes) =>
        /\ DOMAIN positions = DOMAIN prev_store.positions \cup {Key1}
        /\ NewPosition.leverage = LeverageType_from_u8(LastLog.leverage_value)
        /\ NewPosition.mint_price = LastLog.a
        /\ IF HadPosition
           THEN /\ NewPosition.amount = OldPosition.amount
                /\ NewPosition.total_interest = OldPosition.total_interest
                /\ NewPosition.timestamp = OldPosition.timestamp
           ELSE /\ NewPosition.amount = LastLog.b
                /\ NewPosition.total_interest = 0

\* C19 happens: a NetValueAdjusted from token 2 to token 1 made an older record
\* of token 1, which holds interest, Aggressive.
C19_Witness ==
    /\ LastIs({SigNetValueAdjusted})
    /\ LastLog.leverage_value = 2
    /\ HadPosition
    /\ OldPosition.timestamp < now
    /\ OldPosition.leverage = "Moderate"
    /\ OldPosition.total_interest > 0
    /\ OldPosition.amount # LastLog.b
    /\ NewPosition.leverage = "Aggressive"

\* The events whose application is idempotent.
IdempotentSigs ==
    { SigParameterChanged, SigLiquidationConfigInfo, SigInterestRateChanged,
      SigMint, SigNetValueAdjusted, SigAuctionRemoved }

\* C20: applying a ParameterChanged, LiquidationConfigInfo, InterestRateChanged,
\* Mint, NetValueAdjusted or AuctionRemoved a second time, right after the
\* first, leaves the mirrored tables (wall-clock fields aside) as the first
\* application left them.
C20_ReapplyingIsIdempotent ==
    LastIs(IdempotentSigs) =>
        /\ StoreContent(apply_log(W, LastLog, now, TRUE)) = StoreContent(W)
        /\ StoreContent(apply_log_static(W, LastLog, now)) = StoreContent(W)

\* C20 happens: a Mint that carries an amount created the record.
C20_Witness ==
    /\ LastIs({SigMint})
    /\ LastLog.b > 0
    /\ ~HadPosition
    /\ HasPosition
    /\ NewPosition.amount = LastLog.b

-----------------------------------------------------------------------------
(* Properties of the NAV computation (SpecNav) and of the liquidation loop   *)
(* (SpecLiq)                                                                 *)

\* The NAV of the liquidation loop as the integers define it: the gross NAV
\* ((k * Pt - P0) / ((k - 1) * P0), scaled by WAD), the new interest, the total
\* value and the net NAV of a position p at price pt, rate r and time t.
FormulaGrossNav(p, pt) ==
    ((price_multiple(p.leverage) * pt - p.mint_price) * WAD)
        \div ((price_multiple(p.leverage) - 1) * p.mint_price)
FormulaNewInterest(p, r, t) ==
    ((p.amount * r * saturating_sub(t, p.timestamp))
        \div (BASIS_POINTS * SECONDS_PER_YEAR)) \div interest_divisor(p.leverage)
FormulaNetNav(p, gross_nav, accrued) ==
    IF (p.amount * gross_nav) \div WAD >= accrued
    THEN ((((p.amount * gross_nav) \div WAD) - accrued) * WAD) \div p.amount
    ELSE 0

StoredRate == system_params(W).annual_interest_rate
StoredThreshold == system_params(W).liquidation_threshold
PositionOf(token_id) == positions[PosKey("U1", token_id)]

\* The bark attempts of iteration n, in order, and their token ids.
AttemptsOf(n) == SelectSeq(bark_attempts, LAMBDA a : a.iteration = n)
TokenIds(seq) == [j \in 1..Len(seq) |-> seq[j].token_id]

\* C13: in an iteration that read the oracle price, a bark is submitted for
\* exactly the positions with mint_price # 0 whose net NAV is below the
\* liquidation threshold.
C13_BarksExactlyTheLiquidatable ==
    (iteration >= 1 /\ current_price # None /\ pc \in {"liq_idle", "dead"}) =>
        { a.token_id : a \in { AttemptsOf(iteration)[j] :
                                  j \in 1..Len(AttemptsOf(iteration)) } }
        = { k[2] : k \in { q \in DOMAIN positions :
                /\ positions[q].mint_price # 0
                /\ FormulaNetNav(positions[q],
                       FormulaGrossNav(positions[q], current_price),
                       positions[q].total_interest
                           + FormulaNewInterest(positions[q], StoredRate, now))
                   < StoredThreshold } }

\* C14: in every iteration that reaches the bark loop, the positions attempted
\* so far followed by those still to attempt are the positions of the NAV
\* results below the threshold, each once, whatever the outcome of the
\* attempts made in this iteration or in an earlier one.
C14_EveryLiquidatableAttemptedOncePerIteration ==
    (pc = "liq_bark"
     \/ (pc = "liq_idle" /\ iteration >= 1 /\ current_price # None
         /\ nav_results.kind = "ok")) =>
        /\ TokenIds(AttemptsOf(iteration)) \o TokenIds(liquidatable)
           = TokenIds(SelectSeq(nav_results.results,
                                LAMBDA r : r.net_nav < StoredThreshold))
        /\ \A j1, j2 \in 1..Len(AttemptsOf(iteration)) :
              AttemptsOf(iteration)[j1].token_id = AttemptsOf(iteration)[j2].token_id
                  => j1 = j2

\* C14 happens: the bark of token 1 failed in the first iteration, token 2 was
\* attempted after it, and the second iteration attempted token 1 again.
C14_Witness ==
    /\ pc = "liq_idle"
    /\ iteration = 2
    /\ Len(AttemptsOf(1)) = 2
    /\ AttemptsOf(1)[1].token_id = 1
    /\ ~AttemptsOf(1)[1].ok
    /\ AttemptsOf(1)[2].token_id = 2
    /\ Len(AttemptsOf(2)) >= 1
    /\ AttemptsOf(2)[1].token_id = 1

\* C15: for every leverage kind, amount A > 0, mint price P0 > 0, price Pt
\* (k * Pt < P0 included) and interest I, the NAV computation returns, without
\* failing, gross_nav = ((k * Pt - P0) / ((k - 1) * P0)) * WAD and
\* net_nav = max(0, A * gross_nav / WAD - I) * WAD / A.
C15_NavFollowsFormulas ==
    pc \in {"nav_done", "dead"} =>
        /\ nav_results.kind = "ok"
        /\ \A j \in 1..Len(nav_results.results) :
              LET r == nav_results.results[j]
                  p == PositionOf(r.token_id)
              IN  /\ r.gross_nav = FormulaGrossNav(p, current_price)
                  /\ r.net_nav = FormulaNetNav(p, r.gross_nav, r.accrued_interest)

\* The interest computation of position p overflows 256 bits.
InterestOverflows(p) ==
    /\ p.amount # 0
    /\ StoredRate # 0
    /\ \/ p.amount * saturating_sub(now, p.timestamp) > U256_MAX
       \/ p.amount * saturating_sub(now, p.timestamp) * StoredRate > U256_MAX

\* C16: the new interest of every position the scan reaches is
\* amount * rate * (now - timestamp) / (BASIS_POINTS * SECONDS_PER_YEAR) divided
\* by 8, 4 or 1, and 0 when a product of the computation overflows; the scan
\* goes on after an overflow: the first position always gets its interest, and a
\* scan that returns has the interest and the result of every position.
C16_InterestFormulaAndOverflowAsZero ==
    pc \in {"nav_done", "dead"} =>
        /\ \A j \in 1..Len(nav_results.interests) :
              LET e == nav_results.interests[j]
                  p == PositionOf(e.token_id)
              IN  e.new_interest = IF InterestOverflows(p) THEN 0
                                   ELSE FormulaNewInterest(p, StoredRate, now)
        /\ Len(nav_results.interests) >= 1
        /\ nav_results.kind = "ok" =>
              /\ TokenIds(nav_results.interests) = << 1, 2 >>
              /\ TokenIds(nav_results.results) = << 1, 2 >>

\* C16 happens: the interest of the first position overflowed and was taken as
\* 0, and the scan computed the second position, whose interest is positive.
C16_Witness ==
    /\ pc = "nav_done"
    /\ InterestOverflows(PositionOf(1))
    /\ nav_results.kind = "ok"
    /\ nav_results.interests[1].new_interest = 0
    /\ nav_results.results[1].accrued_interest = PositionOf(1).total_interest
    /\ nav_results.interests[2].new_interest > 0
    /\ Len(nav_results.results) = 2


-----------------------------------------------------------------------------
(* Properties of the ParameterChanged dispatch (SpecParams) *)

\* The field of SystemParams a parameter name of a contract stands for, "none"
\* for a name the contract does not have.
FieldOfParameter(address, name) ==
    CASE address = "liquidation_manager" /\ name = "adjustmentThreshold" -> "adjustment_threshold"
      [] address = "liquidation_manager" /\ name = "liquidationThreshold" -> "liquidation_threshold"
      [] address = "liquidation_manager" /\ name = "penalty" -> "penalty"
      [] address = "auction_manager" /\ name = "priceMultiplier" -> "price_multiplier"
      [] address = "auction_manager" /\ name = "resetTime" -> "reset_time"
      [] address = "auction_manager" /\ name = "minAuctionAmount" -> "min_auction_amount"
      [] address = "auction_manager" /\ name = "priceDropThreshold" -> "price_drop_threshold"
      [] address = "auction_manager" /\ name = "percentageReward" -> "percentage_reward"
      [] address = "auction_manager" /\ name = "fixedReward" -> "fixed_reward"
      [] OTHER -> "none"

LastField == FieldOfParameter(LastLog.address, LastLog.parameter.prefix)

\* C21: a ParameterChanged whose name belongs to the emitting contract sets the
\* field of that name to the carried value and leaves every other field; a
\* name of the other contract, circuitBreaker and an unknown name leave every
\* field; in no case does the handler fail.
C21_ParameterChangedTouchesOnlyItsField ==
    LastIs({SigParameterChanged}) =>
        /\ pc # "dead"
        /\ \A f \in DOMAIN DefaultParams :
              system_params(W)[f] =
                  IF f = LastField THEN LastLog.a ELSE system_params(PrevW)[f]

\* C21 happens: after the auction manager's resetTime was set, a ParameterChanged
\* of the auction manager that names the liquidation manager's penalty left
\* the row as it was.
C21_Witness ==
    /\ LastIs({SigParameterChanged})
    /\ LastLog.address = "auction_manager"
    /\ LastLog.parameter.prefix = "penalty"
    /\ prev_store.params # << >>
    /\ system_params(W).reset_time = 8
    /\ system_params(W).penalty = DefaultParams.penalty
    /\ LastLog.a # DefaultParams.penalty
    /\ params = prev_store.params

-----------------------------------------------------------------------------
(* Properties of the LiquidationConfigInfo handler (SpecConfig) *)

\* The three liquidation parameters of a params row.
ConfigOf(row) == << row.adjustment_threshold, row.liquidation_threshold, row.penalty >>
\* The configurations a row can hold whole: the defaults and the announced ones.
WholeConfigs ==
    { ConfigOf(DefaultParams) } \cup { << v, v, v >> : v \in ParameterValues }

\* C22: the params row in the store, and the row the liquidation loop has read,
\* hold the three liquidation parameters of one configuration at any moment:
\* never the values of a LiquidationConfigInfo in some of the three fields and
\* older values in the others.
C22_ConfigFieldsChangeTogether ==
    /\ ConfigOf(system_params(W)) \in WholeConfigs
    /\ read_params # << >> => ConfigOf(read_params[1]) \in WholeConfigs

-----------------------------------------------------------------------------
(* Properties of concurrent store updates (SpecRmw) *)

\* The ParameterChanged of block b and the field it names.
RmwLog(b) == LogsOf(b)[1]
RmwField(b) == FieldOfParameter(RmwLog(b).address, RmwLog(b).parameter.prefix)

\* C23: when the two tasks of a batch have each applied a ParameterChanged, for
\* two different parameters, the params row holds both carried values.
C23_ConcurrentUpdatesAreBothKept ==
    (pc = "realtime" /\ {1, 2} \subseteq applied_blocks
     /\ RmwField(1) # RmwField(2)) =>
        /\ system_params(W)[RmwField(1)] = RmwLog(1).a
        /\ system_params(W)[RmwField(2)] = RmwLog(2).a

-----------------------------------------------------------------------------
(* Properties of the historical replay (SpecOrder) *)

\* The store after the logs of blocks from..to are applied one after the
\* other in block order, starting from the world w.
RECURSIVE apply_in_order(_, _, _, _)
apply_in_order(w, from, to, i) ==
    IF from > to THEN w
    ELSE IF i > Len(LogsOf(from)) THEN apply_in_order(w, from + 1, to, 1)
    ELSE apply_in_order(apply_log_static(w, LogsOf(from)[i], now), from, to, i + 1)

\* The world of a database without rows.
EmptyW ==
    [W EXCEPT !.params = << >>, !.positions = << >>, !.auctions = << >>]

\* C24: during a replay a task applies a log of block b only when every
\* earlier block of the replayed range has had all its logs applied, and the
\* store a replay ends with is the one the logs of the range give when applied
\* one after the other in block order.
C24_ReplayAppliesInBlockOrder ==
    [][ /\ \A b \in Blocks :
              sync_single_block_apply(b) =>
                  \A e \in Blocks : (sync_from <= e /\ e < b) => e \in applied_blocks
        /\ (sync_block_range_join /\ pc' # "sync") =>
              StoreContent(W) = StoreContent(apply_in_order(EmptyW, sync_from, sync_end, 1))
      ]_vars

\* The replay ended with every block of the range fetched and applied, and
\* its store is not the one of the application in block order.
C24_OutOfOrderEnd ==
    /\ pc = "realtime"
    /\ sync_from # None
    /\ \A e \in Blocks : (sync_from <= e /\ e <= sync_end) => e \in applied_blocks
    /\ StoreContent(W) # StoreContent(apply_in_order(EmptyW, sync_from, sync_end, 1))

-----------------------------------------------------------------------------
(* Properties of the startup (Spec) *)

\* C25: the step of perform_initial_sync either begins a replay of
\* [start, head], with start = last_synced_block + 1 when a cursor below the
\* head is stored and start = max(0, head - backtrace) when none is stored and
\* the backtrace is positive, or begins none and leaves the mirrored tables:
\* then the cursor is as it was, or none was stored, the backtrace is 0 and
\* the cursor becomes the head.  A replay is begun in no other case.
C25_ReplayStartBlock ==
    [][perform_initial_sync =>
          IF pc' = "sync"
          THEN /\ sync_end' = head
               /\ sync_cur' <= head
               /\ IF last_synced_block # None
                  THEN last_synced_block < head /\ sync_cur' = last_synced_block + 1
                  ELSE backtrace > 0 /\ sync_cur' = Max(0, head - backtrace)
               /\ UNCHANGED << params, positions, auctions, last_synced_block >>
          ELSE /\ UNCHANGED << params, positions, auctions >>
               /\ \/ UNCHANGED last_synced_block
                  \/ /\ last_synced_block = None
                     /\ backtrace = 0
                     /\ last_synced_block' = head
      ]_vars

\* C25 happens: a cold start with a backtrace beyond the genesis replayed from
\* block 0, and the restart after it resumes at the block after the cursor.
C25_Witness ==
    /\ crashes = 1
    /\ pc = "sync"
    /\ backtrace = 2
    /\ sync_from = 0
    /\ last_synced_block = 1
    /\ sync_cur = 2
    /\ sync_end = 2

\* The blocks of the batch under way and its last block.
BatchBlocks == DOMAIN tasks
BatchLast == CHOOSE b \in BatchBlocks : \A o \in BatchBlocks : o <= b

\* C26: a replay of [start, end] goes through consecutive batches of at most
\* BatchSize blocks: the first batch begins at start, each next batch begins
\* right after the one before, a block has one task and its one getLogs
\* call, the cursor is written during a replay only when a batch has been
\* joined, with the last block of that batch and above its earlier value, and
\* the replay returns after the batch that ends at end, with the cursor at end.
C26_ReplayBatchesPartitionTheRange ==
    [][ /\ (perform_initial_sync /\ pc' = "sync") =>
              BatchBlocks' = sync_cur'..Min(sync_cur' + BatchSize - 1, sync_end')
        /\ \A b \in Blocks :
              sync_single_block_fetch(b) =>
                  /\ b \in BatchBlocks
                  /\ tasks[b].st = "spawned"
                  /\ tasks'[b].st # "spawned"
        /\ (pc = "sync" /\ last_synced_block' # last_synced_block) =>
              sync_block_range_join
        /\ sync_block_range_join =>
              /\ BatchBlocks # {}
              /\ Cardinality(BatchBlocks) <= BatchSize
              /\ last_synced_block' = BatchLast
              /\ last_synced_block' > last_synced_block
              /\ IF pc' = "sync"
                 THEN /\ BatchLast < sync_end
                      /\ BatchBlocks' =
                            (BatchLast + 1)..Min(BatchLast + BatchSize, sync_end)
                 ELSE /\ BatchLast = sync_end
                      /\ last_synced_block' = sync_end
      ]_vars

\* C26 happens: the replay of blocks 0 to 2 wrote the cursor 1 after its first
\* batch and has the task of block 2 as its second batch.
C26_Witness ==
    /\ pc = "sync"
    /\ crashes = 0
    /\ sync_from = 0
    /\ sync_end = 2
    /\ last_synced_block = 1
    /\ BatchBlocks = {2}

\* Every task of the batch has returned or panicked.
AllTasksEnded == \A b \in BatchBlocks : tasks[b].st \in {"done", "panicked"}

\* C27: whatever happened to the other tasks of the batch (a failed getLogs
\* call, an Err of an applier, a panic), a task that has not fetched can
\* fetch, a task with logs left can apply its next log, and once every task
\* has ended the batch is joined: the cursor is set to the last block of the
\* batch and, when blocks remain, the next batch is spawned.
C27_BlockFailureDoesNotFailTheBatch ==
    pc = "sync" =>
        /\ \A b \in BatchBlocks :
              /\ tasks[b].st = "spawned" => ENABLED sync_single_block_fetch(b)
              /\ tasks[b].st = "logs" => ENABLED sync_single_block_apply(b)
        /\ AllTasksEnded =>
              ENABLED ( /\ sync_block_range_join
                        /\ last_synced_block' = BatchLast
                        /\ IF BatchLast < sync_end
                           THEN /\ pc' = "sync"
                                /\ \A b \in DOMAIN tasks' : tasks'[b].st = "spawned"
                           ELSE pc' # "sync" )

\* C27 happens: in the replay of blocks 0 to 2 the task of block 1 failed, the
\* replay went on to the batch of block 2, whose PositionIncreased was applied,
\* and the replay returned with the cursor at 2.
C27_Witness ==
    /\ pc = "realtime"
    /\ sync_from = 0
    /\ 0 \in applied_blocks
    /\ 1 \notin applied_blocks
    /\ 2 \in applied_blocks
    /\ last_synced_block = 2
    /\ ThePosition \in DOMAIN positions
    /\ positions[ThePosition].amount = 5

\* C28: the de-duplication set never holds more than MAX_CACHE_SIZE EventIds.
C28_DedupSetBounded == Cardinality(processed_events) <= MAX_CACHE_SIZE

\* The set is above MAX_CACHE_SIZE while the monitor is in real-time mode, where
\* cleanup_processed_events_cache is not called.
C28_AboveTheBoundInRealtime ==
    pc = "realtime" /\ Cardinality(processed_events) > MAX_CACHE_SIZE

\* An event every tier of the cleanup may remove: expired and of the priority
\* to clean.
Removable(event_id, t) ==
    ~EventMetadata(event_id, t).is_hot /\ EventMetadata(event_id, t).priority > 0

\* Event r is newer than event k: hot against expired, or of the same
\* priority and hotness with a later estimated timestamp.
Newer(r, k, t) ==
    LET mr == EventMetadata(r, t)
        mk == EventMetadata(k, t)
    IN  \/ mr.is_hot /\ ~mk.is_hot
        \/ /\ mr.is_hot = mk.is_hot
           /\ mr.priority = mk.priority
           /\ mr.timestamp > mk.timestamp

\* C29: the cleanup of a polling tick removes no EventId that is newer than a
\* removable EventId it keeps.
C29_CleanupRemovesOlderFirst ==
    [][ pc = "polling" /\ poll_idx = 1 =>
            \A r \in processed_events \ processed_events' :
                \A k \in processed_events \cap processed_events' :
                    Removable(k, now) => ~Newer(r, k, now) ]_vars

\* The cleanup has removed events of block 2 and kept events of block 1.
C29_NewerRemovedOlderKept ==
    /\ pc = "polling"
    /\ \E k \in processed_events : k.block_number = 1 /\ Removable(k, now)
    /\ \E r \in EventIds \ processed_events : r.block_number = 2
    /\ rt_delivered[2] > 0

\* The auction ids of the timer tasks and of the resetAuction submissions.
TimerIds(ts) == { ts[i].auction_id : i \in DOMAIN ts }
ResetIds(txs) == { txs[i].auction_id : i \in DOMAIN txs }

\* C30: every step that puts an auction record into the store schedules a
\* reset for it, whatever the path the AuctionStarted came by: a timer task
\* for the auction is running, or its resetAuction has been submitted.
C30_StoredAuctionHasResetScheduled ==
    [][ \A id \in DOMAIN auctions' \ DOMAIN auctions :
            id \in TimerIds(timers') \cup ResetIds(reset_txs') ]_vars

\* The replay is over and the monitor listens with auction 7 in the store, no
\* timer task and no submission: no later step of the keeper resets it.
C30_ReplayedAuctionIsNeverReset ==
    /\ pc = "realtime"
    /\ crashes = 0
    /\ 7 \in DOMAIN auctions
    /\ 1 \in applied_blocks
    /\ rt_delivered[1] = 0
    /\ timers = << >>
    /\ reset_txs = << >>

\* C31: a step of the liquidation task leaves the params, positions and
\* auctions tables as they are; in particular it never replaces a params row
\* that an event application has written.
C31_LiquidationNeverWritesTheStore ==
    [][ read_params' # read_params /\ params # << >> =>
            /\ params' = params
            /\ positions' = positions
            /\ auctions' = auctions ]_vars

\* The update of an applied ParameterChanged is gone: both blocks are applied
\* and the params row holds the defaults, as the liquidation task put them.
C31_EventUpdateLost ==
    /\ applied_blocks = {1, 2}
    /\ read_params = << DefaultParams >>
    /\ params = << DefaultParams >>

\* C32: a subscription error ends real-time mode in polling mode with a new
\* cycle to start, never in the end of the task; from then on every step of the
\* running monitor is a step of the polling loop, which stays in polling mode.
C32_SubscriptionErrorFallsBackToPolling ==
    [][ /\ pc = "realtime" /\ pc' # pc /\ crashes' = crashes =>
            pc' = "polling" /\ mode' = "Polling" /\ poll_idx' = 1
        /\ pc = "polling" /\ crashes' = crashes =>
            pc' = "polling" /\ mode' = "Polling" ]_vars

\* C32 happens: in this run block 1 was taken in real-time mode, the subscription
\* failed, and a polling cycle has applied the InterestCollected of block 2.
C32_Witness ==
    /\ pc = "polling"
    /\ mode = "Polling"
    /\ rt_delivered[1] > 0
    /\ \E e \in EventIds : e.block_number = 2 /\ poll_applied[e] > 0

\* monitor_all_events with every getLogs call and every submission succeeding:
\* the monitors of PollMonitors from the i-th on.  acc = [w, applied].
RECURSIVE poll_cycle(_, _)
poll_cycle(acc, i) ==
    IF i > Len(PollMonitors) \/ acc.w.panicked \/ acc.w.err THEN acc
    ELSE poll_cycle(
             monitor_events(acc, PollMonitors[i], 1, 1..Len(PollMonitors[i].events),
                            head, now, TRUE),
             i + 1)

\* The Mint logs of the custodian in the latest block.
MintLogsAtHead ==
    { LogsOf(head)[i] : i \in { j \in 1..Len(LogsOf(head)) :
          LogsOf(head)[j].address = "custodian" /\ LogsOf(head)[j].sig = SigMint } }

\* C33: in polling mode, a cycle all of whose getLogs calls succeed applies the
\* Mint logs of the block it polls: afterwards the position of each is stored
\* with the mint price of the log.
C33_PollingAppliesMint ==
    pc = "polling" /\ poll_idx = 1 =>
        \A l \in MintLogsAtHead :
            LET w == poll_cycle([w |-> W, applied |-> poll_applied], 1).w
            IN  /\ has_user_position(w, l.user, l.token_id)
                /\ get_user_position(w, l.user, l.token_id).mint_price = l.a

\* C34: a block whose first log is short of topics or of data leaves the store
\* as the second log alone leaves it under one of the transports, and the
\* transport goes on: no error, no end of the task.
C34_ShortLogIsSkipped ==
    [][ head' # head =>
            /\ pc' = "short"
            /\ \E w \in BlockOutcomes(W, << last_event'[2] >>, now) :
                    /\ params' = w.params
                    /\ positions' = w.positions
                    /\ auctions' = w.auctions ]_vars

\* C34 happens: a Mint with 160 bytes of data was skipped and the Mint after it
\* created the position with its own amount and price.
C34_Witness ==
    /\ pc = "short"
    /\ Len(last_event) = 2
    /\ last_event[1].sig = SigMint
    /\ last_event[1].datalen = 160
    /\ last_event[1].b = 8
    /\ prev_store.positions = << >>
    /\ ThePosition \in DOMAIN positions
    /\ positions[ThePosition].amount = 7
    /\ positions[ThePosition].mint_price = 7

\* C35: a block whose first log has an invalid leverage code leaves the store
\* as the log after it alone leaves it under one of the transports: the failed
\* log is skipped and the rest of the block or cycle is processed.
C35_FailedLogDoesNotStopTheRest ==
    [][ head' # head =>
            /\ pc' = "fail"
            /\ \E w \in TransportOutcomes(W, << last_event'[2] >>, now) :
                    /\ params' = w.params
                    /\ positions' = w.positions
                    /\ auctions' = w.auctions ]_vars

\* The log after the failed one was applied: an auction stored after a
\* NetValueAdjusted with an invalid leverage code.
C35_RestApplied ==
    /\ Len(last_event) = 2
    /\ last_event[1].sig = SigNetValueAdjusted
    /\ last_event[2].sig = SigAuctionStarted
    /\ 7 \in DOMAIN auctions
    /\ 7 \notin DOMAIN prev_store.auctions

\* C36: a PositionIncreased whose read of the stored position fails leaves the
\* stored position as it was.
C36_ReadErrorLeavesThePosition ==
    [][ /\ head' # head
        /\ last_event'[1].sig \in {SigPositionIncreased, SigPositionIncreased6}
        /\ last_event'[2].read = "Err"
        /\ ThePosition \in DOMAIN positions
        => positions' = positions ]_vars

\* With a read that succeeds, PositionIncreased keeps the leverage and the mint
\* price of the stored position.
C36_ReadOkKeepsLeverageAndPrice ==
    [][ /\ head' # head
        /\ last_event'[1].sig \in {SigPositionIncreased, SigPositionIncreased6}
        /\ last_event'[2].read = "Ok"
        /\ ThePosition \in DOMAIN positions
        => /\ ThePosition \in DOMAIN positions'
           /\ positions'[ThePosition].leverage = positions[ThePosition].leverage
           /\ positions'[ThePosition].mint_price = positions[ThePosition].mint_price ]_vars

\* C37: an InterestCollected creates no record where none was stored, stores
\* no value above the one it found, and does not end the ingestion task,
\* whatever deduction and interest it carries.
C37_InterestCollectedNeverWrapsNorStops ==
    LastIs({SigInterestCollected}) =>
        /\ pc # "dead"
        /\ ~HadPosition => ~HasPosition
        /\ HasPosition =>
              /\ NewPosition.amount <= OldPosition.amount
              /\ NewPosition.total_interest <= OldPosition.total_interest

\* The part of C37 that holds: no record is created and no wrapped value is
\* stored.
C37_NoRecordCreatedNoWrappedValue ==
    LastIs({SigInterestCollected}) =>
        /\ ~HadPosition => ~HasPosition /\ pc # "dead"
        /\ HasPosition =>
              /\ NewPosition.amount <= OldPosition.amount
              /\ NewPosition.total_interest <= OldPosition.total_interest

\* The applier of a Mint or of a PositionIncreased, with a store that answers.
ApplyMintOrIncrease(w, log) ==
    IF log.sig = SigMint
    THEN process_custodian_event(w, "Mint", log, now)
    ELSE position_increased(w, log, now, "Ok")

\* The four fields of a position record that C38 speaks of.
MirroredFields(p) ==
    [ amount |-> p.amount, total_interest |-> p.total_interest,
      leverage |-> p.leverage, mint_price |-> p.mint_price ]

\* C38: a Mint and a PositionIncreased of the same key, applied to a store
\* without a record of the key, leave the same amount, total_interest, leverage
\* and mint_price in either order.
C38_MintAndPositionIncreaseCommute ==
    [][ /\ head = 1 /\ head' = 2
        /\ last_event[2].read = "Ok" /\ last_event'[2].read = "Ok"
        /\ last_event[1].sig # last_event'[1].sig
        => LET swapped == ApplyMintOrIncrease(
                              ApplyMintOrIncrease([W EXCEPT !.positions = << >>],
                                                  last_event'[1]),
                              last_event[1])
           IN  /\ DOMAIN positions' = DOMAIN swapped.positions
               /\ ThePosition \in DOMAIN positions'
               /\ MirroredFields(positions'[ThePosition])
                      = MirroredFields(swapped.positions[ThePosition]) ]_vars

\* C38 happens: a PositionIncreased was applied to the record a Mint created,
\* and the record holds the totals of the one and the price of the other.
C38_Witness ==
    /\ head = 2
    /\ last_event[1].sig \in {SigPositionIncreased, SigPositionIncreased6}
    /\ last_event[2].read = "Ok"
    /\ ThePosition \in DOMAIN prev_store.positions
    /\ prev_store.positions[ThePosition].mint_price = 8
    /\ prev_store.positions[ThePosition].amount = 2
    /\ positions[ThePosition].mint_price = 8
    /\ positions[ThePosition].leverage = "Aggressive"
    /\ positions[ThePosition].amount = 5
    /\ positions[ThePosition].total_interest = 1

\* C39: cleanup_processed_events_cache only removes ids; it leaves a set of at
\* most SOFT_CACHE_SIZE ids as it is, and it leaves of a larger set at most
\* MAX_CACHE_SIZE ids and at least MIN_RETAIN_SIZE ids or none.
C39_CleanupShrinksWithinBounds ==
    [][ pc = "cleanup" =>
            /\ processed_events' \subseteq processed_events
            /\ Cardinality(processed_events) <= SOFT_CACHE_SIZE =>
                  processed_events' = processed_events
            /\ Cardinality(processed_events) > SOFT_CACHE_SIZE =>
                  /\ Cardinality(processed_events') <= MAX_CACHE_SIZE
                  /\ \/ Cardinality(processed_events') >= MIN_RETAIN_SIZE
                     \/ processed_events' = {} ]_vars

\* C39 happens: the cleanup of a set where every id is expired has left
\* MIN_RETAIN_SIZE ids.
C39_Witness ==
    /\ pc = "cleaned"
    /\ Cardinality(processed_events) = MIN_RETAIN_SIZE
    /\ \A e \in processed_events : ~EventMetadata(e, now).is_hot

\* The cleanup of a set above MAX_CACHE_SIZE where every id is hot has left
\* TARGET_CACHE_SIZE ids.
C39_CleanedToTarget ==
    /\ pc = "cleaned"
    /\ Cardinality(processed_events) = TARGET_CACHE_SIZE
    /\ now = 0

\* The EventIds of the logs of block b.
EventIdsOf(b) == { EventIdOf(LogsOf(b)[i]) : i \in 1..Len(LogsOf(b)) }

\* C40: in real-time mode the delivery of a block leaves the EventId of each of
\* its logs in the set of processed events, also of a log whose application
\* returned an error, and the delivery of a block all of whose EventIds are in
\* the set writes nothing to the store.
C40_FailedLogIsMarkedAndNeverReapplied ==
    [][ \A b \in Blocks :
            pc = "realtime" /\ rt_delivered'[b] # rt_delivered[b] =>
                /\ EventIdsOf(b) \subseteq processed_events'
                /\ EventIdsOf(b) \subseteq processed_events =>
                      /\ params' = params
                      /\ positions' = positions
                      /\ auctions' = auctions ]_vars

\* C40 happens: block 2, with a NetValueAdjusted that cannot be applied and an
\* InterestCollected that was, has been delivered twice in real-time mode and the
\* interest was deducted once.
C40_Witness ==
    /\ pc = "realtime"
    /\ rt_delivered[2] = 2
    /\ LogsOf(2)[2].leverage_value \in InvalidLeverageCodes
    /\ EventIdsOf(2) \subseteq processed_events
    /\ ThePosition \in DOMAIN positions
    /\ positions[ThePosition].amount = 2
=============================================================================
